---- MODULE Spec2Model ----
(***************************************************************************)
(* Model of the Smart API Doc Assistant backend (backend/main.py):         *)
(* the spec normalizer (normalize_spec and its four strategies), the       *)
(* process-wide cache API_SPEC, the upload handler and the read handlers.  *)
(*                                                                         *)
(* Python values are tagged pairs <<tag, payload>>:                        *)
(*   <<"str", chars>>    a string, as a sequence of one-character strings  *)
(*   <<"num", n>>        an integer                                        *)
(*   <<"null", <<>>>>    None                                              *)
(*   <<"bool", b>>       True or False                                     *)
(*   <<"list", elems>>   a list of values                                  *)
(*   <<"dict", entries>> a dict, as the sequence of its <<key, value>>     *)
(*                       entries in insertion order (keys are values)      *)
(*   <<"raise", kind>>   the outcome of an expression that raised          *)
(***************************************************************************)
EXTENDS Integers, Sequences, FiniteSets, TLC

\* ------------------------------------------------------------------------
\* Python values
\* ------------------------------------------------------------------------
Str(cs) == <<"str", cs>>
Num(n) == <<"num", n>>
None == <<"null", <<>>>>
Bool(b) == <<"bool", b>>
List(es) == <<"list", es>>
Dict(kvs) == <<"dict", kvs>>
Raise(kind) == <<"raise", kind>>

EmptyDict == Dict(<<>>)
EmptyList == List(<<>>)
EmptyStr == Str(<<>>)

IsStr(v) == v[1] = "str"
IsNum(v) == v[1] = "num"
IsNone(v) == v[1] = "null"
IsList(v) == v[1] = "list"
IsDict(v) == v[1] = "dict"
IsErr(v) == v[1] = "raise"

\* bool(v): empty containers, the empty string, 0 and None are falsy
Truthy(v) ==
  CASE IsStr(v) \/ IsList(v) \/ IsDict(v) -> Len(v[2]) > 0
    [] IsNum(v) -> v[2] /= 0
    [] v[1] = "bool" -> v[2]
    [] OTHER -> FALSE

\* a or b
Or(a, b) == IF Truthy(a) THEN a ELSE b

\* k in d, for a dict d
DictHas(d, k) == \E i \in 1..Len(d[2]) : d[2][i][1] = k

\* d[k], for a dict d that has k
DictAt(d, k) == d[2][CHOOSE i \in 1..Len(d[2]) : d[2][i][1] = k][2]

\* d.get(k, default), for a dict d
DictGet(d, k, default) == IF DictHas(d, k) THEN DictAt(d, k) ELSE default

\* d[k] = v: an existing key keeps its position, a new key is appended
DictSet(d, k, v) ==
  IF DictHas(d, k)
  THEN Dict([i \in 1..Len(d[2]) |-> IF d[2][i][1] = k THEN <<k, v>> ELSE d[2][i]])
  ELSE Dict(Append(d[2], <<k, v>>))

\* list(d.keys())
DictKeys(d) == [i \in 1..Len(d[2]) |-> d[2][i][1]]

\* x.get(k, default) on any value: only dicts have .get
PyGet(x, k, default) ==
  IF IsDict(x) THEN DictGet(x, k, default) ELSE Raise("AttributeError")

\* hashable values can be dict keys
Hashable(v) == ~(IsList(v) \/ IsDict(v))

\* ------------------------------------------------------------------------
\* Strings
\* ------------------------------------------------------------------------
Uppers == <<"A","B","C","D","E","F","G","H","I","J","K","L","M",
            "N","O","P","Q","R","S","T","U","V","W","X","Y","Z">>
Lowers == <<"a","b","c","d","e","f","g","h","i","j","k","l","m",
            "n","o","p","q","r","s","t","u","v","w","x","y","z">>

LowerChar(c) ==
  IF \E i \in 1..Len(Uppers) : Uppers[i] = c
  THEN Lowers[CHOOSE i \in 1..Len(Uppers) : Uppers[i] = c]
  ELSE c

UpperChar(c) ==
  IF \E i \in 1..Len(Lowers) : Lowers[i] = c
  THEN Uppers[CHOOSE i \in 1..Len(Lowers) : Lowers[i] = c]
  ELSE c

LowerChars(cs) == [i \in 1..Len(cs) |-> LowerChar(cs[i])]
UpperChars(cs) == [i \in 1..Len(cs) |-> UpperChar(cs[i])]

\* v.lower(): only strings have .lower
PyLower(v) == IF IsStr(v) THEN Str(LowerChars(v[2])) ELSE Raise("AttributeError")

\* v.upper()
PyUpper(v) == IF IsStr(v) THEN Str(UpperChars(v[2])) ELSE Raise("AttributeError")

\* needle in hay, for character sequences
IsSubstring(needle, hay) ==
  \E s \in 0..(Len(hay) - Len(needle)) :
    \A i \in 1..Len(needle) : hay[s + i] = needle[i]

Whitespace == {" ", "\t", "\n"}

RECURSIVE LStrip(_)
LStrip(cs) ==
  IF cs /= <<>> /\ Head(cs) \in Whitespace THEN LStrip(Tail(cs)) ELSE cs

RECURSIVE RStrip(_)
RStrip(cs) ==
  IF cs /= <<>> /\ cs[Len(cs)] \in Whitespace
  THEN RStrip(SubSeq(cs, 1, Len(cs) - 1))
  ELSE cs

\* cs.strip()
Strip(cs) == RStrip(LStrip(cs))

\* string literals used by the code
s_info == Str(<<"i","n","f","o">>)
s_paths == Str(<<"p","a","t","h","s">>)
s_item == Str(<<"i","t","e","m">>)
s_endpoints == Str(<<"e","n","d","p","o","i","n","t","s">>)
s_endpoint == Str(<<"e","n","d","p","o","i","n","t">>)
s_swagger == Str(<<"s","w","a","g","g","e","r">>)
s_openapi == Str(<<"o","p","e","n","a","p","i">>)
s_title == Str(<<"t","i","t","l","e">>)
s_name == Str(<<"n","a","m","e">>)
s_version == Str(<<"v","e","r","s","i","o","n">>)
s_request == Str(<<"r","e","q","u","e","s","t">>)
s_method == Str(<<"m","e","t","h","o","d">>)
s_url == Str(<<"u","r","l">>)
s_raw == Str(<<"r","a","w">>)
s_path == Str(<<"p","a","t","h">>)
s_summary == Str(<<"s","u","m","m","a","r","y">>)
s_description == Str(<<"d","e","s","c","r","i","p","t","i","o","n">>)
s_parameters == Str(<<"p","a","r","a","m","e","t","e","r","s">>)
s_responses == Str(<<"r","e","s","p","o","n","s","e","s">>)
s_response == Str(<<"r","e","s","p","o","n","s","e">>)
s_requestBody == Str(<<"r","e","q","u","e","s","t","B","o","d","y">>)
s_queryParams == Str(<<"q","u","e","r","y","P","a","r","a","m","s">>)
s_pathParams == Str(<<"p","a","t","h","P","a","r","a","m","s">>)
s_body == Str(<<"b","o","d","y">>)
s_GET == Str(<<"G","E","T">>)
s_slash == Str(<<"/">>)
s_API == Str(<<"A","P","I">>)
s_PostmanCollection ==
  Str(<<"P","o","s","t","m","a","n"," ","C","o","l","l","e","c","t","i","o","n">>)

s_in == Str(<<"i","n">>)
s_query == Str(<<"q","u","e","r","y">>)
s_schema == Str(<<"s","c","h","e","m","a">>)
s_type == Str(<<"t","y","p","e">>)
s_required == Str(<<"r","e","q","u","i","r","e","d">>)
s_string == Str(<<"s","t","r","i","n","g">>)
s_object == Str(<<"o","b","j","e","c","t">>)
s_content == Str(<<"c","o","n","t","e","n","t">>)
s_appjson ==
  Str(<<"a","p","p","l","i","c","a","t","i","o","n","/","j","s","o","n">>)
s_properties == Str(<<"p","r","o","p","e","r","t","i","e","s">>)
s_200 == Str(<<"2","0","0">>)
s_example == Str(<<"e","x","a","m","p","l","e">>)
s_ResponseExample ==
  Str(<<"R","e","s","p","o","n","s","e"," ","e","x","a","m","p","l","e">>)

\* ------------------------------------------------------------------------
\* str() and repr() of a value (strings of the model hold no quote and no
\* backslash, so repr quotes them with single quotes)
\* ------------------------------------------------------------------------
DigitChars == <<"0","1","2","3","4","5","6","7","8","9">>

RECURSIVE NatChars(_)
NatChars(n) ==
  IF n < 10 THEN <<DigitChars[n + 1]>>
  ELSE NatChars(n \div 10) \o <<DigitChars[(n % 10) + 1]>>

IntChars(n) == IF n < 0 THEN <<"-">> \o NatChars(0 - n) ELSE NatChars(n)

RECURSIVE PyReprChars(_)
RECURSIVE ReprElems(_, _)
RECURSIVE ReprEntries(_, _)
PyReprChars(v) ==
  CASE IsStr(v) -> <<"'">> \o v[2] \o <<"'">>
    [] IsNum(v) -> IntChars(v[2])
    [] IsNone(v) -> <<"N","o","n","e">>
    [] v[1] = "bool" -> IF v[2] THEN <<"T","r","u","e">> ELSE <<"F","a","l","s","e">>
    [] IsList(v) -> <<"[">> \o ReprElems(v[2], 1) \o <<"]">>
    [] IsDict(v) -> <<"{">> \o ReprEntries(v[2], 1) \o <<"}">>
ReprElems(es, i) ==
  IF i > Len(es) THEN <<>>
  ELSE (IF i > 1 THEN <<",", " ">> ELSE <<>>) \o PyReprChars(es[i]) \o ReprElems(es, i + 1)
ReprEntries(kvs, i) ==
  IF i > Len(kvs) THEN <<>>
  ELSE (IF i > 1 THEN <<",", " ">> ELSE <<>>)
       \o PyReprChars(kvs[i][1]) \o <<":", " ">> \o PyReprChars(kvs[i][2])
       \o ReprEntries(kvs, i + 1)

\* str(v)
PyStr(v) == IF IsStr(v) THEN v ELSE Str(PyReprChars(v))

\* ------------------------------------------------------------------------
\* Normalizer
\* ------------------------------------------------------------------------
\* _safe_get(d, *keys, default=default), keys given as a sequence
RECURSIVE safe_get(_, _, _)
safe_get(d, keys, default) ==
  IF keys = <<>> THEN d
  ELSE IF ~IsDict(d) \/ ~DictHas(d, Head(keys)) THEN default
  ELSE safe_get(DictAt(d, Head(keys)), Tail(keys), default)

\* {"info": info, "paths": paths}
CanonicalSpec(info, paths) == Dict(<< <<s_info, info>>, <<s_paths, paths>> >>)

normalize_openapi(spec) ==
  LET info == Or(DictGet(spec, s_info, EmptyDict), EmptyDict)
      paths == Or(DictGet(spec, s_paths, EmptyDict), EmptyDict)
  IN CanonicalSpec(info, paths)

\* paths[path][method] = op, creating paths[path] when it is missing
SetOperation(paths, path, method, op) ==
  LET old == IF DictHas(paths, path) THEN DictAt(paths, path) ELSE EmptyDict
  IN DictSet(paths, path, DictSet(old, method, op))

\* "/".join(segs) for a sequence of string values
RECURSIVE JoinSlash(_, _)
JoinSlash(segs, i) ==
  IF i > Len(segs) THEN <<>>
  ELSE (IF i > 1 THEN <<"/">> ELSE <<>>) \o segs[i][2] \o JoinSlash(segs, i + 1)

\* the elements a for-loop over v visits; iterating a number, a bool or None raises
Iterable(v) == IsList(v) \/ IsDict(v) \/ IsStr(v)
IterSeq(v) ==
  CASE IsList(v) -> v[2]
    [] IsDict(v) -> DictKeys(v)
    [] IsStr(v) -> [i \in 1..Len(v[2]) |-> Str(<<v[2][i]>>)]

\* k in x, for a container x (a string k in a string x is a substring test)
Contains(k, x) ==
  CASE IsDict(x) -> DictHas(x, k)
    [] IsList(x) -> \E i \in 1..Len(x[2]) : x[2][i] = k
    [] IsStr(x) -> IsSubstring(k[2], x[2])

\* the path that main.py lines 70-73 take from a url object's "path" field
path_of_field(p) ==
  IF IsList(p)
  THEN IF \A i \in 1..Len(p[2]) : IsStr(p[2][i])
       THEN Str(<<"/">> \o JoinSlash(p[2], 1))
       ELSE Raise("TypeError")
  ELSE p

\* main.py lines 70-75: the path of a url that is an object, a string or else
path_of_url(url) ==
  IF IsDict(url) THEN path_of_field(DictGet(url, s_path, None))
  ELSE IF IsStr(url) THEN url ELSE s_slash

\* main.py lines 76-77: "if not path: path = '/'"
path_or_slash(path) ==
  IF IsErr(path) THEN path ELSE IF Truthy(path) THEN path ELSE s_slash

\* the path of a Postman request, main.py lines 68-77
postman_path(req) ==
  path_or_slash(path_of_url(
    Or(Or(DictGet(req, s_url, None), DictGet(req, s_raw, None)), EmptyDict)))

\* main.py lines 78-85, with the exceptions that computing the method or the
\* path raised, or that an unhashable path raises
store_operation(paths, path, method, op) ==
  IF IsErr(method) THEN method
  ELSE IF IsErr(path) THEN path
  ELSE IF ~Hashable(path) THEN Raise("TypeError")
  ELSE SetOperation(paths, path, method, op)

\* main.py lines 65-85 for the value req of it.get("request")
walk_request(it, req, paths) ==
  IF ~Truthy(req) THEN paths
  ELSE IF ~IsDict(req) THEN Raise("AttributeError")
  ELSE store_operation(paths, postman_path(req),
         PyLower(Or(DictGet(req, s_method, None), s_GET)),
         Dict(<< <<s_summary, Or(DictGet(it, s_name, None), EmptyStr)>>,
                 <<s_description, safe_get(it, <<s_request, s_description>>, EmptyStr)>>,
                 <<s_parameters, EmptyList>>,
                 <<s_responses, EmptyDict>> >>))

\* the else branch of _walk's loop body, main.py lines 64-85
walk_leaf(it, paths) ==
  IF ~IsDict(it) THEN Raise("AttributeError")
  ELSE walk_request(it, DictGet(it, s_request, None), paths)

\* variant of nested_items: a walk that does not descend into nested items
nested_items_none(it) == EmptyList

\* it["item"], main.py line 62
nested_items(it) == IF IsDict(it) THEN DictAt(it, s_item) ELSE Raise("TypeError")

\* _walk(items_list), threading the enclosing paths dict; the result is the
\* updated paths, or the exception that left the walk
RECURSIVE walk(_, _)
RECURSIVE walk_seq(_, _)

\* the loop body of _walk for one element, main.py lines 61-85
walk_item(it, paths) ==
  IF ~Iterable(it) THEN Raise("TypeError")
  ELSE IF Contains(s_item, it) THEN walk(nested_items(it), paths)
  ELSE walk_leaf(it, paths)

\* the loop goes on with the paths r that an element left, unless it raised
walk_rest(r, its) == IF IsErr(r) THEN r ELSE walk_seq(its, r)

walk(items_list, paths) ==
  IF IsErr(items_list) THEN items_list
  ELSE IF ~Iterable(items_list) THEN Raise("TypeError")
  ELSE walk_seq(IterSeq(items_list), paths)
walk_seq(its, paths) ==
  IF its = <<>> THEN paths ELSE walk_rest(walk_item(Head(its), paths), Tail(its))

\* the result of a strategy whose loops left paths, or raised
spec_of(info, paths) == IF IsErr(paths) THEN paths ELSE CanonicalSpec(info, paths)

normalize_postman(spec) ==
  LET info == Dict(<< <<s_title,
                        safe_get(spec, <<s_info, s_name>>, s_PostmanCollection)>> >>)
      items == Or(DictGet(spec, s_item, EmptyList), EmptyList)
  IN spec_of(info, walk(items, EmptyDict))

\* the Parameter records of one queryParams / pathParams mapping,
\* main.py lines 106-111
RECURSIVE params_of(_, _, _, _)
params_of(kvs, i, loc, required) ==
  IF i > Len(kvs) THEN <<>>
  ELSE << Dict(<< <<s_name, kvs[i][1]>>,
                  <<s_in, loc>>,
                  <<s_schema, Dict(<< <<s_type, PyStr(kvs[i][2])>> >>)>>,
                  <<s_required, Bool(required)>>,
                  <<s_description, EmptyStr>> >>) >>
       \o params_of(kvs, i + 1, loc, required)

\* the properties of the request-body schema, main.py lines 118-119: a key that
\* occurs once in body.items() gets one entry
body_props(kvs) ==
  Dict([i \in 1..Len(kvs) |->
          <<kvs[i][1], Dict(<< <<s_type, s_string>>, <<s_description, EmptyStr>> >>)>>])

\* the loop body of _normalize_custom_endpoints, main.py lines 100-133
custom_endpoint(e, paths) ==
  IF ~IsDict(e) THEN Raise("AttributeError")
  ELSE
  LET path == Or(Or(DictGet(e, s_path, None), DictGet(e, s_endpoint, None)), s_slash)
      method == PyLower(Or(DictGet(e, s_method, None), s_GET))
      summary == Or(Or(DictGet(e, s_name, None), DictGet(e, s_summary, None)), EmptyStr)
      description == Or(DictGet(e, s_description, None), EmptyStr)
      qp == DictGet(e, s_queryParams, None)
      pp == DictGet(e, s_pathParams, None)
      body == DictGet(e, s_body, None)
      resp == DictGet(e, s_response, None)
      params == (IF Truthy(qp) THEN params_of(qp[2], 1, s_query, FALSE) ELSE <<>>)
                \o (IF Truthy(pp) THEN params_of(pp[2], 1, s_path, TRUE) ELSE <<>>)
      requestBody ==
        IF Truthy(body)
        THEN Dict(<< <<s_content,
               Dict(<< <<s_appjson,
                 Dict(<< <<s_schema,
                   Dict(<< <<s_type, s_object>>,
                           <<s_properties, body_props(body[2])>>,
                           <<s_required, EmptyList>> >>)>> >>)>> >>)>> >>)
        ELSE EmptyDict
      responses ==
        IF Truthy(resp)
        THEN Dict(<< <<s_200,
               Dict(<< <<s_description, s_ResponseExample>>,
                       <<s_content,
                         Dict(<< <<s_appjson, Dict(<< <<s_example, resp>> >>)>> >>)>> >>)>> >>)
        ELSE EmptyDict
      op == Dict(<< <<s_summary, summary>>,
                    <<s_description, description>>,
                    <<s_parameters, List(params)>>,
                    <<s_requestBody, requestBody>>,
                    <<s_responses, responses>> >>)
  IN IF IsErr(method) THEN method
     ELSE IF Truthy(qp) /\ ~IsDict(qp) THEN Raise("AttributeError")
     ELSE IF Truthy(pp) /\ ~IsDict(pp) THEN Raise("AttributeError")
     ELSE IF Truthy(body) /\ ~IsDict(body) THEN Raise("AttributeError")
     ELSE IF ~Hashable(path) THEN Raise("TypeError")
     ELSE SetOperation(paths, path, method, op)

RECURSIVE custom_loop(_, _)
custom_loop(es, paths) ==
  IF es = <<>> THEN paths
  ELSE LET r == custom_endpoint(Head(es), paths)
       IN IF IsErr(r) THEN r ELSE custom_loop(Tail(es), r)

normalize_custom_endpoints(spec) ==
  LET info0 == Or(DictGet(spec, s_info, EmptyDict), EmptyDict)
      info == IF ~Truthy(info0) /\ DictHas(spec, s_name)
              THEN Dict(<< <<s_title, DictGet(spec, s_name, None)>>,
                           <<s_version, DictGet(spec, s_version, None)>> >>)
              ELSE info0
      endpoints == Or(DictGet(spec, s_endpoints, EmptyList), EmptyList)
  IN spec_of(info, custom_loop(endpoints[2], EmptyDict))

\* the inner loop of _normalize_minimal, main.py lines 146-147: the verbs of
\* one path-like key
RECURSIVE minimal_methods(_, _)
minimal_methods(kvs, acc) ==
  IF kvs = <<>> THEN acc
  ELSE LET m == PyLower(Head(kvs)[1])
           d == Head(kvs)[2]
           op == Dict(<< <<s_summary, safe_get(d, <<s_summary>>, EmptyStr)>>,
                         <<s_description, safe_get(d, <<s_description>>, EmptyStr)>>,
                         <<s_parameters, PyGet(d, s_parameters, EmptyList)>>,
                         <<s_responses, PyGet(d, s_responses, EmptyDict)>> >>)
       IN IF IsErr(m) THEN m
          ELSE IF ~IsDict(d) THEN Raise("AttributeError")
          ELSE minimal_methods(Tail(kvs), DictSet(acc, m, op))

\* k.startswith("/") for a string k
StartsWithSlash(k) == Len(k[2]) > 0 /\ k[2][1] = "/"

RECURSIVE minimal_loop(_, _)
minimal_loop(kvs, paths) ==
  IF kvs = <<>> THEN paths
  ELSE LET k == Head(kvs)[1]
           v == Head(kvs)[2]
       IN IF IsStr(k) /\ StartsWithSlash(k)
          THEN LET ms == IF IsDict(v) THEN minimal_methods(v[2], EmptyDict) ELSE EmptyDict
               IN IF IsErr(ms) THEN ms
                  ELSE minimal_loop(Tail(kvs), DictSet(paths, k, ms))
          ELSE minimal_loop(Tail(kvs), paths)

normalize_minimal(spec) ==
  LET info == Or(DictGet(spec, s_info, EmptyDict),
                 Dict(<< <<s_title, Or(DictGet(spec, s_title, None), s_API)>> >>))
  IN spec_of(info, minimal_loop(spec[2], EmptyDict))

\* normalize_spec(raw_spec) for a dict raw_spec: the CanonicalSpec, or the
\* exception that a strategy raised
\* variant of normalize_spec: the item test placed before the paths test
normalize_spec_item_first(raw_spec) ==
  IF DictHas(raw_spec, s_item) /\ IsList(DictAt(raw_spec, s_item))
  THEN normalize_postman(raw_spec)
  ELSE IF DictHas(raw_spec, s_paths) /\ IsDict(DictAt(raw_spec, s_paths))
  THEN normalize_openapi(raw_spec)
  ELSE IF DictHas(raw_spec, s_endpoints) /\ IsList(DictAt(raw_spec, s_endpoints))
  THEN normalize_custom_endpoints(raw_spec)
  ELSE IF DictHas(raw_spec, s_swagger) \/ DictHas(raw_spec, s_openapi)
  THEN normalize_openapi(raw_spec)
  ELSE normalize_minimal(raw_spec)

normalize_spec(raw_spec) ==
  IF DictHas(raw_spec, s_paths) /\ IsDict(DictAt(raw_spec, s_paths))
  THEN normalize_openapi(raw_spec)
  ELSE IF DictHas(raw_spec, s_item) /\ IsList(DictAt(raw_spec, s_item))
  THEN normalize_postman(raw_spec)
  ELSE IF DictHas(raw_spec, s_endpoints) /\ IsList(DictAt(raw_spec, s_endpoints))
  THEN normalize_custom_endpoints(raw_spec)
  ELSE IF DictHas(raw_spec, s_swagger) \/ DictHas(raw_spec, s_openapi)
  THEN normalize_openapi(raw_spec)
  ELSE normalize_minimal(raw_spec)

\* ------------------------------------------------------------------------
\* json.dumps(v, ensure_ascii=False)
\* ------------------------------------------------------------------------
JsonEscape(c) ==
  CASE c = "\"" -> <<"\\", "\"">>
    [] c = "\\" -> <<"\\", "\\">>
    [] c = "\n" -> <<"\\", "n">>
    [] c = "\t" -> <<"\\", "t">>
    [] OTHER -> <<c>>

RECURSIVE JsonStringChars(_)
JsonStringChars(cs) ==
  IF cs = <<>> THEN <<>> ELSE JsonEscape(Head(cs)) \o JsonStringChars(Tail(cs))

\* a dict key as json.dumps writes it: keys that are not strings are converted
JsonKeyChars(k) ==
  CASE IsStr(k) -> k[2]
    [] IsNum(k) -> IntChars(k[2])
    [] IsNone(k) -> <<"n","u","l","l">>
    [] k[1] = "bool" -> IF k[2] THEN <<"t","r","u","e">> ELSE <<"f","a","l","s","e">>

RECURSIVE DumpsChars(_)
RECURSIVE DumpsElems(_, _)
RECURSIVE DumpsEntries(_, _)
DumpsChars(v) ==
  CASE IsStr(v) -> <<"\"">> \o JsonStringChars(v[2]) \o <<"\"">>
    [] IsNum(v) -> IntChars(v[2])
    [] IsNone(v) -> <<"n","u","l","l">>
    [] v[1] = "bool" -> IF v[2] THEN <<"t","r","u","e">> ELSE <<"f","a","l","s","e">>
    [] IsList(v) -> <<"[">> \o DumpsElems(v[2], 1) \o <<"]">>
    [] IsDict(v) -> <<"{">> \o DumpsEntries(v[2], 1) \o <<"}">>
DumpsElems(es, i) ==
  IF i > Len(es) THEN <<>>
  ELSE (IF i > 1 THEN <<",", " ">> ELSE <<>>) \o DumpsChars(es[i]) \o DumpsElems(es, i + 1)
DumpsEntries(kvs, i) ==
  IF i > Len(kvs) THEN <<>>
  ELSE (IF i > 1 THEN <<",", " ">> ELSE <<>>)
       \o <<"\"">> \o JsonStringChars(JsonKeyChars(kvs[i][1])) \o <<"\"">>
       \o <<":", " ">> \o DumpsChars(kvs[i][2])
       \o DumpsEntries(kvs, i + 1)

\* ------------------------------------------------------------------------
\* Read side: the (path, method, details) triples a handler's nested loops
\* visit, in order
\* ------------------------------------------------------------------------
\* the triples of one path; tolerant is TRUE for loops written
\* "for ... in (methods or {}).items()" and FALSE for "methods.items()"
methods_triples(path, methods, tolerant) ==
  IF tolerant /\ ~Truthy(methods) THEN <<>>
  ELSE IF ~IsDict(methods) THEN Raise("AttributeError")
  ELSE [i \in 1..Len(methods[2]) |-> <<path, methods[2][i][1], methods[2][i][2]>>]

RECURSIVE paths_triples(_, _)
paths_triples(kvs, tolerant) ==
  IF kvs = <<>> THEN <<>>
  ELSE LET here == methods_triples(Head(kvs)[1], Head(kvs)[2], tolerant)
           rest == paths_triples(Tail(kvs), tolerant)
       IN IF here /= <<>> /\ IsErr(here) THEN here
          ELSE IF rest /= <<>> /\ IsErr(rest) THEN rest
          ELSE here \o rest

\* the triples of "for path, methods in paths.items(): for method, details in ..."
\* or the exception .items() raises on a value that is no dict
triples(paths, tolerant) ==
  IF ~IsDict(paths) THEN Raise("AttributeError") ELSE paths_triples(paths[2], tolerant)

IsRaised(x) == x /= <<>> /\ x[1] = "raise"

\* ------------------------------------------------------------------------
\* format_api_summary (main.py)
\* ------------------------------------------------------------------------
Chars(v) == v[2]

\* the character U+2014 (EM DASH), which a module cannot spell literally
EmDash == "U+2014"

\* the character U+0060 (GRAVE ACCENT), which a module's strings cannot hold
Backtick == "U+0060"

\* "\n".join(lines) for a sequence of character sequences
RECURSIVE JoinLines(_, _)
JoinLines(lines, i) ==
  IF i > Len(lines) THEN <<>>
  ELSE (IF i > 1 THEN <<"\n">> ELSE <<>>) \o lines[i] \o JoinLines(lines, i + 1)

\* cs.replace(old, new) for a one-character old
RECURSIVE ReplaceChar(_, _, _)
ReplaceChar(cs, old, new) ==
  IF cs = <<>> THEN <<>>
  ELSE (IF Head(cs) = old THEN new ELSE <<Head(cs)>>) \o ReplaceChar(Tail(cs), old, new)

\* f"{method.upper()}_{path}".replace("/", "_").replace("{", "").replace("}", "")
node_name(method, path) ==
  ReplaceChar(ReplaceChar(ReplaceChar(
      UpperChars(method[2]) \o <<"_">> \o Chars(PyStr(path)),
      "/", <<"_">>), "{", <<>>), "}", <<>>)

\* f"- **{method.upper()} {path}** {EM DASH} {details.get('summary', '')}"
\* variant of overview_line: the verb as the spec spells it
overview_line_verbatim(t) ==
  <<"-"," ","*","*">> \o t[2][2] \o <<" ">> \o Chars(PyStr(t[1]))
  \o <<"*","*"," ",EmDash," ">> \o Chars(PyStr(DictGet(t[3], s_summary, EmptyStr)))

overview_line(t) ==
  <<"-"," ","*","*">> \o UpperChars(t[2][2]) \o <<" ">> \o Chars(PyStr(t[1]))
  \o <<"*","*"," ",EmDash," ">> \o Chars(PyStr(DictGet(t[3], s_summary, EmptyStr)))

\* f"Client --> {node_name}[{method.upper()} {path}]"
edge_line(t) ==
  <<"C","l","i","e","n","t"," ","-","-",">"," ">> \o node_name(t[2], t[1])
  \o <<"[">> \o UpperChars(t[2][2]) \o <<" ">> \o Chars(PyStr(t[1])) \o <<"]">>

\* format_api_summary(spec): the Markdown text, or the exception raised
format_api_summary(spec) ==
  LET ts == triples(DictGet(spec, s_paths, EmptyDict), FALSE)
  IN IF IsRaised(ts) THEN ts
     ELSE IF \E i \in 1..Len(ts) : ~IsStr(ts[i][2]) \/ ~IsDict(ts[i][3])
     THEN Raise("AttributeError")
     ELSE LET md_lines == << <<"#"," ","A","P","I"," ","S","u","m","m","a","r","y","\n">> >>
                          \o [i \in 1..Len(ts) |-> overview_line(ts[i])]
              mermaid_lines ==
                << <<Backtick,Backtick,Backtick,"m","e","r","m","a","i","d">>,
                   <<"f","l","o","w","c","h","a","r","t"," ","L","R">>,
                   <<"C","l","i","e","n","t","(","(","C","l","i","e","n","t",")",")">> >>
                \o [i \in 1..Len(ts) |-> edge_line(ts[i])]
                \o << <<Backtick,Backtick,Backtick>> >>
          IN Str(JoinLines(md_lines \o << <<"\n">> >> \o mermaid_lines, 1))

\* ------------------------------------------------------------------------
\* search (main.py): the part after the "not uploaded" check
\* ------------------------------------------------------------------------
\* kw = (keyword or "").lower().strip()
\* variant of search_kw: the keyword lowercased but not stripped
search_kw_unstripped(keyword) == LowerChars(Or(keyword, EmptyStr)[2])

search_kw(keyword) == Strip(LowerChars(Or(keyword, EmptyStr)[2]))

\* the test of main.py line 459 on one triple: TRUE, FALSE, or the exception
\* (path.lower() and method.lower() exist on strings only; "or" short-circuits)
search_match(kw, t) ==
  LET blob == LowerChars(DumpsChars(t[3]))
  IN IF ~IsStr(t[1]) THEN Raise("AttributeError")
     ELSE IF IsSubstring(kw, LowerChars(t[1][2])) THEN Bool(TRUE)
     ELSE IF ~IsStr(t[2]) THEN Raise("AttributeError")
     ELSE Bool(IsSubstring(kw, LowerChars(t[2][2])) \/ IsSubstring(kw, blob))

\* results.setdefault(path, {})[method] = details over the matching triples
RECURSIVE search_collect(_, _, _)
search_collect(kw, ts, results) ==
  IF ts = <<>> THEN results
  ELSE LET m == search_match(kw, Head(ts))
       IN IF IsErr(m) THEN m
          ELSE search_collect(kw, Tail(ts),
                 IF m[2] THEN SetOperation(results, Head(ts)[1], Head(ts)[2], Head(ts)[3])
                 ELSE results)

\* the scan of main.py lines 455-460: the results dict or the exception
search_scan(spec, kw) ==
  LET ts == triples(Or(DictGet(spec, s_paths, None), EmptyDict), TRUE)
  IN IF IsRaised(ts) THEN ts ELSE search_collect(kw, ts, EmptyDict)

\* ------------------------------------------------------------------------
\* Text helpers (main.py): summarize_text, extract_keywords
\* ------------------------------------------------------------------------
STOPWORDS ==
  {
    <<"a">>, <<"a","n">>, <<"a","n","d">>, <<"a","r","e">>,
    <<"a","s">>, <<"a","t">>, <<"b","e">>, <<"b","y">>,
    <<"f","o","r">>, <<"f","r","o","m">>, <<"h","a","s">>, <<"h","a","v","e">>,
    <<"h","o","w">>, <<"i">>, <<"i","f">>, <<"i","n">>,
    <<"i","n","t","o">>, <<"i","s">>, <<"i","t">>, <<"i","t","s">>,
    <<"o","f">>, <<"o","n">>, <<"o","r">>, <<"t","h","a","t">>,
    <<"t","h","e">>, <<"t","h","e","i","r">>, <<"t","h","e","m">>, <<"t","h","e","y">>,
    <<"t","h","i","s">>, <<"t","o">>, <<"w","a","s">>, <<"w","e","r","e">>,
    <<"w","h","a","t">>, <<"w","h","e","n">>, <<"w","h","e","r","e">>, <<"w","h","i","c","h">>,
    <<"w","h","o">>, <<"w","i","l","l">>, <<"w","i","t","h">>, <<"y","o","u">>,
    <<"y","o","u","r">>
  }

SentenceEnd == {".", "!", "?"}

\* re.split(r"(?<=[.!?])\s+", t)[0] for a stripped t: t up to the first
\* whitespace that follows a '.', '!' or '?'
sentence_cuts(t) == {j \in 2..Len(t) : t[j] \in Whitespace /\ t[j - 1] \in SentenceEnd}

first_cut(cuts, t) ==
  IF cuts = {} THEN Strip(t)
  ELSE Strip(SubSeq(t, 1, (CHOOSE j \in cuts : \A k \in cuts : j <= k) - 1))

first_sentence(t) == IF t = <<>> THEN <<>> ELSE first_cut(sentence_cuts(t), t)

MinSentenceLen == 30
MaxSummaryLen == 220
NoDescription ==
  Str(<<"N","o"," ","d","e","s","c","r","i","p","t","i","o","n"," ",
        "a","v","a","i","l","a","b","l","e",".">>)

\* main.py lines 209-214 for the stripped text t and its first sentence s
summary_of(t, s) ==
  IF t = <<>> THEN NoDescription
  ELSE IF Len(s) < MinSentenceLen
  THEN Str(RStrip(SubSeq(t, 1, IF Len(t) < MaxSummaryLen THEN Len(t) ELSE MaxSummaryLen)))
  ELSE Str(s)

\* t = (text or "").strip()
stripped_text(text) == Strip(Or(text, EmptyStr)[2])

\* summarize_text(text) for a string or falsy text
summarize_text(text) == summary_of(stripped_text(text), first_sentence(stripped_text(text)))

IsLetter(c) == \E i \in 1..Len(Lowers) : Lowers[i] = c \/ Uppers[i] = c
IsWordChar(c) ==
  IsLetter(c) \/ (\E i \in 1..Len(DigitChars) : DigitChars[i] = c) \/ c = "_" \/ c = "-"

\* the end of the maximal run of word characters that starts at i
RECURSIVE run_end(_, _)
run_end(cs, i) == IF i < Len(cs) /\ IsWordChar(cs[i + 1]) THEN run_end(cs, i + 1) ELSE i

\* re.findall(r"[a-zA-Z][a-zA-Z0-9_-]+", cs), scanning from position i
RECURSIVE find_words(_, _)
find_words(cs, i) ==
  IF i > Len(cs) THEN <<>>
  ELSE IF IsLetter(cs[i]) /\ run_end(cs, i) > i
  THEN <<SubSeq(cs, i, run_end(cs, i))>> \o find_words(cs, run_end(cs, i) + 1)
  ELSE find_words(cs, i + 1)

MinKeywordLen == 3
TopK == 6

\* the words that are counted, in order of occurrence with repetition
counted_words(cs) ==
  SelectSeq(find_words(LowerChars(cs), 1),
            LAMBDA w : w \notin STOPWORDS /\ Len(w) >= MinKeywordLen)

\* the keys of freq in insertion order: each word at its first occurrence
RECURSIVE distinct_words(_, _)
distinct_words(ws, seen) ==
  IF ws = <<>> THEN <<>>
  ELSE IF Head(ws) \in seen THEN distinct_words(Tail(ws), seen)
  ELSE <<Head(ws)>> \o distinct_words(Tail(ws), seen \cup {Head(ws)})

Count(ws, w) == Cardinality({i \in 1..Len(ws) : ws[i] = w})

\* sorted(items, key=count, reverse=True): a stable sort, so among equal counts
\* the insertion order is kept; insertion of x into a sorted prefix
\* variant of insert_ranked: a sort that puts a word before the earlier words
\* of the same count
RECURSIVE insert_ranked_unstable(_, _, _)
insert_ranked_unstable(ranked, w, ws) ==
  IF ranked = <<>> THEN <<w>>
  ELSE IF Count(ws, Head(ranked)) > Count(ws, w)
  THEN <<Head(ranked)>> \o insert_ranked_unstable(Tail(ranked), w, ws)
  ELSE <<w>> \o ranked

RECURSIVE insert_ranked(_, _, _)
insert_ranked(ranked, w, ws) ==
  IF ranked = <<>> THEN <<w>>
  ELSE IF Count(ws, Head(ranked)) >= Count(ws, w)
  THEN <<Head(ranked)>> \o insert_ranked(Tail(ranked), w, ws)
  ELSE <<w>> \o ranked

RECURSIVE rank_words(_, _, _)
rank_words(keys, ranked, ws) ==
  IF keys = <<>> THEN ranked
  ELSE rank_words(Tail(keys), insert_ranked(ranked, Head(keys), ws), ws)

\* ranked[:top_k], as a list of strings
top_words(ranked, top_k) ==
  List([i \in 1..(IF Len(ranked) < top_k THEN Len(ranked) ELSE top_k) |-> Str(ranked[i])])

\* the words ws ranked by descending count
ranked_words(ws) == rank_words(distinct_words(ws, {}), <<>>, ws)

\* extract_keywords(text, top_k) for a string or falsy text
extract_keywords(text, top_k) ==
  top_words(ranked_words(counted_words(Or(text, EmptyStr)[2])), top_k)

\* ------------------------------------------------------------------------
\* Uploaded documents and files
\* ------------------------------------------------------------------------
\* a minimal OpenAPI document
D_users ==
  Dict(<<
    <<Str(<<"p","a","t","h","s">>),
      Dict(<<
        <<Str(<<"/","u","s","e","r","s">>),
          Dict(<<
            <<Str(<<"g","e","t">>),
              Dict(<<
                <<Str(<<"s","u","m","m","a","r","y">>),
                  Str(<<"L","i","s","t"," ","u","s","e","r","s">>)>> >>)>> >>)>> >>)>> >>)

\* an OpenAPI document with an upper-case verb key
D_upper ==
  Dict(<<
    <<Str(<<"o","p","e","n","a","p","i">>), Str(<<"3">>)>>,
    <<Str(<<"i","n","f","o">>),
      Dict(<<
        <<Str(<<"t","i","t","l","e">>), Str(<<"S","h","o","p">>)>>,
        <<Str(<<"v","e","r","s","i","o","n">>), Str(<<"1">>)>> >>)>>,
    <<Str(<<"p","a","t","h","s">>),
      Dict(<<
        <<Str(<<"/","i","t","e","m","s","/","{","i","d","}">>),
          Dict(<<
            <<Str(<<"P","O","S","T">>),
              Dict(<<
                <<Str(<<"d","e","s","c","r","i","p","t","i","o","n">>),
                  Str(<<"A","d","d"," ","o","n","e">>)>> >>)>>,
            <<Str(<<"g","e","t">>), Dict(<<>>)>> >>)>> >>)>> >>)

\* an OpenAPI document whose paths mapping is empty
D_nopaths ==
  Dict(<<
    <<Str(<<"p","a","t","h","s">>), Dict(<<>>)>>,
    <<Str(<<"i","n","f","o">>),
      Dict(<<
        <<Str(<<"n","a","m","e">>), Str(<<"N","o","n","e"," ","y","e","t">>)>> >>)>> >>)

\* a swagger document whose paths is a sequence
D_swagger_list ==
  Dict(<<
    <<Str(<<"s","w","a","g","g","e","r">>), Str(<<"2">>)>>,
    <<Str(<<"p","a","t","h","s">>), List(<<Str(<<"/","a">>)>>)>> >>)

\* a swagger document whose paths is a number
D_swagger_num ==
  Dict(<<
    <<Str(<<"s","w","a","g","g","e","r">>), Str(<<"2">>)>>,
    <<Str(<<"p","a","t","h","s">>), Num(5)>> >>)

\* a Postman collection with a request three folders deep
D_postman ==
  Dict(<<
    <<Str(<<"i","n","f","o">>),
      Dict(<<<<Str(<<"n","a","m","e">>), Str(<<"C","o","l">>)>>>>)>>,
    <<Str(<<"i","t","e","m">>),
      List(<<
        Dict(<<
          <<Str(<<"n","a","m","e">>), Str(<<"L","o","g","i","n">>)>>,
          <<Str(<<"r","e","q","u","e","s","t">>),
            Dict(<<
              <<Str(<<"m","e","t","h","o","d">>), Str(<<"P","O","S","T">>)>>,
              <<Str(<<"u","r","l">>),
                Dict(<<
                  <<Str(<<"r","a","w">>), Str(<<"x">>)>>,
                  <<Str(<<"p","a","t","h">>),
                    List(<<
                      Str(<<"a","p","i">>),
                      Str(<<"l","o","g","i","n">>) >>)>> >>)>> >>)>> >>),
        Dict(<<
          <<Str(<<"n","a","m","e">>), Str(<<"F">>)>>,
          <<Str(<<"i","t","e","m">>),
            List(<<
              Dict(<<
                <<Str(<<"n","a","m","e">>), Str(<<"G">>)>>,
                <<Str(<<"i","t","e","m">>),
                  List(<<
                    Dict(<<
                      <<Str(<<"n","a","m","e">>), Str(<<"H">>)>>,
                      <<Str(<<"i","t","e","m">>),
                        List(<<
                          Dict(<<
                            <<Str(<<"n","a","m","e">>),
                              Str(<<"D","e","e","p">>)>>,
                            <<Str(<<"r","e","q","u","e","s","t">>),
                              Dict(<<
                                <<Str(<<"u","r","l">>),
                                  Str(<<"/","d","e","e","p">>)>>,
                                <<Str(<<"d","e","s","c","r","i","p","t","i","o","n">>),
                                  Str(<<"F","a","r"," ","d","o","w","n">>)>> >>)>> >>) >>)>> >>) >>)>> >>) >>)>> >>) >>)>> >>)

\* a Postman collection with an item that is no mapping
D_postman_bad ==
  Dict(<<<<Str(<<"i","t","e","m">>), List(<<Num(5)>>)>>>>)

\* a document in the custom endpoints schema
D_custom ==
  Dict(<<
    <<Str(<<"n","a","m","e">>), Str(<<"L","i","b","r","a","r","y">>)>>,
    <<Str(<<"v","e","r","s","i","o","n">>), Num(2)>>,
    <<Str(<<"e","n","d","p","o","i","n","t","s">>),
      List(<<
        Dict(<<
          <<Str(<<"p","a","t","h">>), Str(<<"/","b","o","o","k","s">>)>>,
          <<Str(<<"m","e","t","h","o","d">>), Str(<<"G","E","T">>)>>,
          <<Str(<<"d","e","s","c","r","i","p","t","i","o","n">>),
            Str(<<"A","l","l"," ","b","o","o","k","s">>)>>,
          <<Str(<<"q","u","e","r","y","P","a","r","a","m","s">>),
            Dict(<<<<Str(<<"q">>), Str(<<"s","t","r","i","n","g">>)>>>>)>> >>),
        Dict(<<
          <<Str(<<"e","n","d","p","o","i","n","t">>),
            Str(<<"/","b","o","o","k","s">>)>>,
          <<Str(<<"m","e","t","h","o","d">>), Str(<<"P","o","s","t">>)>>,
          <<Str(<<"n","a","m","e">>), Str(<<"A","d","d">>)>>,
          <<Str(<<"b","o","d","y">>),
            Dict(<<<<Str(<<"t","i","t","l","e">>), Str(<<"x">>)>>>>)>>,
          <<Str(<<"r","e","s","p","o","n","s","e">>),
            Dict(<<<<Str(<<"o","k">>), Num(1)>>>>)>> >>) >>)>> >>)

\* a document with a path-like top-level key
D_minimal ==
  Dict(<<
    <<Str(<<"t","i","t","l","e">>), Str(<<"M","i","n","i">>)>>,
    <<Str(<<"/","p","i","n","g">>),
      Dict(<<
        <<Str(<<"G","E","T">>),
          Dict(<<
            <<Str(<<"s","u","m","m","a","r","y">>), Str(<<"P","i","n","g">>)>> >>)>> >>)>>,
    <<Str(<<"n","o","t","e">>), Str(<<"x">>)>> >>)

\* the empty mapping
D_empty ==
  Dict(<<>>)

\* an uploaded file: what json.loads and yaml.safe_load make of its text
\* (a value, or the exception the parser raises)
File(json, yaml) == [json |-> json, yaml |-> yaml]
JsonFile(doc) == File(doc, doc)
YamlFile(doc) == File(Raise("JSONDecodeError"), doc)

Files ==
  { JsonFile(D_users), JsonFile(D_upper), JsonFile(D_nopaths),
    JsonFile(D_swagger_list), JsonFile(D_swagger_num), JsonFile(D_postman),
    JsonFile(D_postman_bad), JsonFile(D_custom), YamlFile(D_minimal),
    JsonFile(D_empty),
    JsonFile(List(<<D_users>>)),
    YamlFile(Str(<<"h","e","l","l","o">>)),
    File(Raise("JSONDecodeError"), Raise("YAMLError")) }

\* ------------------------------------------------------------------------
\* Route handlers (main.py). A response is [status, body]; status "error" is
\* the 500 answer to an exception that left the handler.
\* ------------------------------------------------------------------------
Response(status, body) == [status |-> status, body |-> body]

s_undefined == Str(<<"u","n","d","e","f","i","n","e","d">>)
s_message == Str(<<"m","e","s","s","a","g","e">>)
s_path_count == Str(<<"p","a","t","h","_","c","o","u","n","t">>)
s_uploaded ==
  Str(<<"S","p","e","c"," ","u","p","l","o","a","d","e","d"," ",
        "s","u","c","c","e","s","s","f","u","l","l","y">>)
s_keywords == Str(<<"k","e","y","w","o","r","d","s">>)

\* len(v)
PyLen(v) ==
  IF IsStr(v) \/ IsList(v) \/ IsDict(v) THEN Num(Len(v[2])) ELSE Raise("TypeError")

\* the text of the upload as parsed by main.py lines 401-409: JSON first,
\* then YAML; the exception of the YAML parser when both fail
decode(file) == IF IsErr(file.json) THEN file.yaml ELSE file.json

\* the response body of main.py line 421, or the exception len() raised
metadata_of(title, version, path_count) ==
  IF IsErr(path_count) THEN path_count
  ELSE Dict(<< <<s_message, s_uploaded>>, <<s_title, title>>,
               <<s_version, version>>, <<s_path_count, path_count>> >>)

\* the metadata of main.py lines 417-421, read from the cache just written
upload_metadata(cache) ==
  metadata_of(safe_get(cache, <<s_info, s_title>>,
                       safe_get(cache, <<s_info, s_name>>, s_undefined)),
              safe_get(cache, <<s_info, s_version>>, s_undefined),
              PyLen(Or(DictGet(cache, s_paths, EmptyDict), EmptyDict)))

\* what a run of upload_spec leaves: its response, the value of API_SPEC, and
\* whether line 415 assigned API_SPEC
UploadResult(resp, cache, wrote) == [resp |-> resp, cache |-> cache, wrote |-> wrote]

\* main.py lines 417-421 for the metadata computed from the cache just written
upload_respond(meta, normalized) ==
  IF IsErr(meta) THEN UploadResult(Response("error", meta), normalized, TRUE)
  ELSE UploadResult(Response("ok", meta), normalized, TRUE)

\* main.py lines 414-421 for the value normalize_spec returned, or raised
\* variant of upload_normalized: a failed normalization that resets the cache
upload_normalized_clearing(normalized, cache) ==
  IF IsErr(normalized) THEN UploadResult(Response("error", normalized), EmptyDict, TRUE)
  ELSE upload_respond(upload_metadata(normalized), normalized)

\* variant of upload_normalized: the metadata read from the cache as it was
\* before line 415 assigned it
upload_normalized_stale(normalized, cache) ==
  IF IsErr(normalized) THEN UploadResult(Response("error", normalized), cache, FALSE)
  ELSE upload_respond(upload_metadata(cache), normalized)

upload_normalized(normalized, cache) ==
  IF IsErr(normalized) THEN UploadResult(Response("error", normalized), cache, FALSE)
  ELSE upload_respond(upload_metadata(normalized), normalized)

\* main.py lines 410-421 for the decoded text
\* variant of upload_parsed: a rejected upload that resets the cache
upload_parsed_clearing(parsed, cache) ==
  IF IsErr(parsed) THEN UploadResult(Response("invalid", None), EmptyDict, TRUE)
  ELSE IF ~IsDict(parsed) THEN UploadResult(Response("not_object", None), EmptyDict, TRUE)
  ELSE upload_normalized(normalize_spec(parsed), cache)

upload_parsed(parsed, cache) ==
  IF IsErr(parsed) THEN UploadResult(Response("invalid", None), cache, FALSE)
  ELSE IF ~IsDict(parsed) THEN UploadResult(Response("not_object", None), cache, FALSE)
  ELSE upload_normalized(normalize_spec(parsed), cache)

\* upload_spec, from the decoding on
upload_spec(file, cache) == upload_parsed(decode(file), cache)

\* main.py line 445 for the effective description desc
summary_of_desc(desc) ==
  IF ~IsStr(desc) THEN Raise("AttributeError")
  ELSE Dict(<< <<s_summary, summarize_text(desc)>>,
               <<s_keywords, extract_keywords(desc, TopK)>> >>)

\* the body of summarize_json's inner loop, main.py lines 444-445
summary_entry(details) ==
  IF ~IsDict(details) THEN Raise("AttributeError")
  ELSE summary_of_desc(Or(Or(DictGet(details, s_description, None),
                             DictGet(details, s_summary, None)), EmptyStr))

RECURSIVE summary_methods(_, _)

\* result[endpoint][method.upper()] = e, and on with the other methods
summary_put(kvs, acc, m, e) ==
  IF IsErr(e) THEN e
  ELSE IF IsErr(m) THEN m
  ELSE summary_methods(kvs, DictSet(acc, m, e))

summary_methods(kvs, acc) ==
  IF kvs = <<>> THEN acc
  ELSE summary_put(Tail(kvs), acc, PyUpper(Head(kvs)[1]), summary_entry(Head(kvs)[2]))

\* the entries of one path, main.py lines 442-445: "(methods or {}).items()"
summary_of_methods(methods) ==
  IF ~Truthy(methods) THEN EmptyDict
  ELSE IF ~IsDict(methods) THEN Raise("AttributeError")
  ELSE summary_methods(methods[2], EmptyDict)

RECURSIVE summary_paths(_, _)

summary_next(kvs, result, endpoint, ms) ==
  IF IsErr(ms) THEN ms ELSE summary_paths(kvs, DictSet(result, endpoint, ms))

summary_paths(kvs, result) ==
  IF kvs = <<>> THEN result
  ELSE summary_next(Tail(kvs), result, Head(kvs)[1], summary_of_methods(Head(kvs)[2]))

\* The read handlers take the outcome of their first read of API_SPEC
\* ("if not API_SPEC", as uploaded), and the value of their second read (spec).

\* the 200 answer with a body, or the 500 answer when computing it raised
answer(body) == IF IsErr(body) THEN Response("error", body) ELSE Response("ok", body)

api_summary(uploaded, spec) ==
  IF ~uploaded THEN Response("no_spec", None) ELSE answer(format_api_summary(spec))

get_spec(uploaded, spec) ==
  IF ~uploaded THEN Response("no_spec", None) ELSE Response("ok", spec)

\* the loops of summarize_json over "(API_SPEC.get('paths') or {}).items()"
summary_result(paths) ==
  IF IsDict(paths) THEN summary_paths(paths[2], EmptyDict) ELSE Raise("AttributeError")

summarize_json(uploaded, spec) ==
  IF ~uploaded THEN Response("no_spec", None)
  ELSE answer(summary_result(Or(DictGet(spec, s_paths, None), EmptyDict)))

\* main.py lines 461-463 for the results of the scan
search_answer(results, keyword) ==
  IF IsErr(results) THEN Response("error", results)
  ELSE IF ~Truthy(results) THEN Response("no_matches", keyword)
  ELSE Response("ok", results)

search(uploaded, spec, keyword) ==
  IF ~uploaded THEN Response("no_spec", None)
  ELSE IF search_kw(keyword) = <<>> THEN Response("empty_keyword", None)
  ELSE search_answer(search_scan(spec, search_kw(keyword)), keyword)

\* main.py lines 325-336 for the Markdown md; rendered tells whether the
\* external mermaid renderer produced an SVG
diagram_answer(md, rendered) ==
  IF IsErr(md) THEN Response("error", md)
  ELSE IF rendered THEN Response("svg", md)
  ELSE Response("render_failed", None)

diagram_flow(uploaded, spec, rendered) ==
  IF ~uploaded THEN Response("no_spec", None)
  ELSE diagram_answer(format_api_summary(spec), rendered)

\* whether a read handler returns without reading API_SPEC a second time
returns_early(op, keyword, uploaded) ==
  ~uploaded \/ (op = "search" /\ search_kw(keyword) = <<>>)

\* the response of read handler op
read_response(op, keyword, uploaded, spec, rendered) ==
  CASE op = "api_summary" -> api_summary(uploaded, spec)
    [] op = "get_spec" -> get_spec(uploaded, spec)
    [] op = "summarize_json" -> summarize_json(uploaded, spec)
    [] op = "search" -> search(uploaded, spec, keyword)
    [] op = "diagram_flow" -> diagram_flow(uploaded, spec, rendered)


\* the cache object after read handler op ran on it
\* variant of read_leaves: a search that collects its matches in the cached
\* paths mapping instead of a dict of its own
read_leaves_collecting(op, keyword, spec) ==
  IF op = "search" THEN DictSet(spec, s_paths, search_scan(spec, search_kw(keyword)))
  ELSE spec

\* no handler assigns API_SPEC ("global" is declared in upload_spec only) and
\* none changes the object in place: format_api_summary and render_mermaid
\* only iterate over it, get_spec passes it to JSONResponse, summarize_json
\* and search fill dicts they created (main.py lines 439 and 455)
read_leaves(op, keyword, spec) == spec

\* ------------------------------------------------------------------------
\* The flow diagram and the endpoints table of nlp/summarizer.py
\* ------------------------------------------------------------------------
\* p.strip("/")
RECURSIVE LStripSlash(_)
LStripSlash(cs) ==
  IF cs /= <<>> /\ Head(cs) = "/" THEN LStripSlash(Tail(cs)) ELSE cs

RECURSIVE RStripSlash(_)
RStripSlash(cs) ==
  IF cs /= <<>> /\ cs[Len(cs)] = "/" THEN RStripSlash(SubSeq(cs, 1, Len(cs) - 1)) ELSE cs

StripSlash(cs) == RStripSlash(LStripSlash(cs))

\* cs.split("/"), with the characters of the current segment in cur
RECURSIVE SplitSlash(_, _)
SplitSlash(cs, cur) ==
  IF cs = <<>> THEN <<cur>>
  ELSE IF Head(cs) = "/" THEN <<cur>> \o SplitSlash(Tail(cs), <<>>)
  ELSE SplitSlash(Tail(cs), Append(cur, Head(cs)))

HasBrace(seg) == \E i \in 1..Len(seg) : seg[i] = "{"

\* summarizer.py line 127: the segments that are neither empty nor hold "{"
resource_parts(path) ==
  LET Kept(seg) == seg /= <<>> /\ ~HasBrace(seg)
  IN SelectSeq(SplitSlash(StripSlash(path), <<>>), Kept)

\* str.title(): a letter is upper case after a character that is no letter,
\* and lower case after a letter
RECURSIVE TitleFrom(_, _)
TitleFrom(cs, afterLetter) ==
  IF cs = <<>> THEN <<>>
  ELSE LET c == Head(cs)
           letter == LowerChar(c) /= c \/ UpperChar(c) /= c
       IN <<IF ~letter THEN c ELSE IF afterLetter THEN LowerChar(c) ELSE UpperChar(c)>>
          \o TitleFrom(Tail(cs), letter)

TitleChars(cs) == TitleFrom(cs, FALSE)

flow_head ==
  << <<Backtick,Backtick,Backtick,"m","e","r","m","a","i","d">>,
     <<"f","l","o","w","c","h","a","r","t"," ","L","R">>,
     <<"U","[","U+1F464"," ","C","l","i","e","n","t","]">> >>

signup_edges ==
  << <<"U"," ","-","-",">"," ","S","[","P","O","S","T"," ","/","s","i","g","n","u","p","]">>,
     <<"S"," ","-","-",">"," ","S","O","K","[","U+2705"," ","A","c","c","o","u","n","t"," ","C","r","e","a","t","e","d","]">> >>

login_edges ==
  << <<"U"," ","-","-",">"," ","L","[","P","O","S","T"," ","/","l","o","g","i","n","]">>,
     <<"L"," ","-","-",">"," ","T","[","U+1F511"," ","J","W","T","/","S","e","s","s","i","o","n"," ","T","o","k","e","n","]">> >>

token_edges ==
  << <<"U"," ","-","-",">"," ","T","K","[","P","O","S","T"," ","/","t","o","k","e","n","]">>,
     <<"T","K"," ","-","-",">"," ","T","[","U+1F511"," ","A","c","c","e","s","s"," ","T","o","k","e","n","]">> >>

w_signup == <<"s","i","g","n","u","p">>
w_register == <<"r","e","g","i","s","t","e","r">>
w_login == <<"l","o","g","i","n">>
w_auth == <<"a","u","t","h">>
w_token == <<"t","o","k","e","n">>
w_id == <<"{","i","d","}">>
w_GET == <<"G","E","T">>
w_POST == <<"P","O","S","T">>
w_PUT == <<"P","U","T">>
w_DELETE == <<"D","E","L","E","T","E">>
w_arrow == <<" ","-","-",">"," ">>

\* "w in p" for a string w and a key p of paths: p must be a container
InKey(w, p) ==
  IF IsStr(p) THEN Bool(IsSubstring(w, p[2]))
  ELSE IF IsList(p) \/ IsDict(p) THEN Bool(FALSE)
  ELSE Raise("TypeError")

\* the tests of summarizer.py lines 116, 119 and 122 on one key
is_signup(p) ==
  IF IsErr(InKey(w_signup, p)) THEN InKey(w_signup, p)
  ELSE Bool(InKey(w_signup, p)[2] \/ InKey(w_register, p)[2])

is_login(p) ==
  IF IsErr(InKey(w_login, p)) THEN InKey(w_login, p)
  ELSE Bool(InKey(w_login, p)[2] \/ (InKey(w_auth, p)[2] /\ ~InKey(w_token, p)[2]))

is_token(p) == InKey(w_token, p)

\* any(Test(p) for p in keys): TRUE at the first key that passes, or the
\* exception of the first key whose test raises before that
RECURSIVE any_of(_)
any_of(tests) ==
  IF tests = <<>> THEN Bool(FALSE)
  ELSE IF IsErr(Head(tests)) THEN Head(tests)
  ELSE IF Head(tests)[2] THEN Bool(TRUE)
  ELSE any_of(Tail(tests))

\* the tests of lines 116, 119 and 122 on every key, in order
signup_tests(keys) == [i \in 1..Len(keys) |-> is_signup(keys[i])]
login_tests(keys) == [i \in 1..Len(keys) |-> is_login(keys[i])]
token_tests(keys) == [i \in 1..Len(keys) |-> is_token(keys[i])]

\* summarizer.py lines 116-123 after the three tests
auth_edges_of(signup, login, token) ==
  IF IsErr(signup) THEN signup
  ELSE IF IsErr(login) THEN login
  ELSE IF IsErr(token) THEN token
  ELSE (IF signup[2] THEN signup_edges ELSE <<>>)
       \o (IF login[2] THEN login_edges ELSE <<>>)
       \o (IF token[2] THEN token_edges ELSE <<>>)

\* variant of auth_edges: the edges once for every key that matches
RECURSIVE auth_edges_per_key(_)
auth_edges_per_key(keys) ==
  IF keys = <<>> THEN <<>>
  ELSE auth_edges_of(is_signup(Head(keys)), is_login(Head(keys)), is_token(Head(keys)))
       \o auth_edges_per_key(Tail(keys))

auth_edges(keys) ==
  auth_edges_of(any_of(signup_tests(keys)), any_of(login_tests(keys)),
                any_of(token_tests(keys)))

\* summarizer.py lines 133-143: the edges of one method of a path
verb_edges(m, path, resource) ==
  IF m = w_GET /\ IsSubstring(w_id, path)
  THEN << <<"T"," ","-","-",">"," ","G","_">> \o resource \o <<"[","G","E","T"," ","/">> \o resource \o <<"/","{","i","d","}","]">>,
          <<"G","_">> \o resource \o <<" ","-","-",">"," ","V","_">> \o resource \o <<"[","U+1F4C4"," ">> \o TitleChars(resource) \o <<" ","D","e","t","a","i","l","]">> >>
  ELSE IF m = w_GET
  THEN << <<"T"," ","-","-",">"," ","L","_">> \o resource \o <<"[","G","E","T"," ","/">> \o resource \o <<"]">>,
          <<"L","_">> \o resource \o <<" ","-","-",">"," ","L","S","T","_">> \o resource \o <<"[","U+1F4C4"," ">> \o TitleChars(resource) \o <<" ","L","i","s","t","]">> >>
  ELSE IF m = w_POST
  THEN << <<"T"," ","-","-",">"," ","C","_">> \o resource \o <<"[","P","O","S","T"," ","/">> \o resource \o <<"]">>,
          <<"C","_">> \o resource \o <<" ","-","-",">"," ","N","E","W","_">> \o resource \o <<"[","U+2795"," ","N","e","w"," ">> \o TitleChars(resource) \o <<"]">> >>
  ELSE IF m = w_PUT
  THEN << <<"T"," ","-","-",">"," ","U","_">> \o resource \o <<"[","P","U","T"," ","/">> \o resource \o <<"/","{","i","d","}","]">>,
          <<"U","_">> \o resource \o <<" ","-","-",">"," ","U","P","D","_">> \o resource \o <<"[","U+270F","U+FE0F"," ","U","p","d","a","t","e"," ">> \o TitleChars(resource) \o <<"]">> >>
  ELSE IF m = w_DELETE
  THEN << <<"T"," ","-","-",">"," ","D","_">> \o resource \o <<"[","D","E","L","E","T","E"," ","/">> \o resource \o <<"/","{","i","d","}","]">>,
          <<"D","_">> \o resource \o <<" ","-","-",">"," ","D","E","L","_">> \o resource \o <<"[","U+274C"," ","D","e","l","e","t","e"," ">> \o TitleChars(resource) \o <<"]">> >>
  ELSE <<>>

\* the loop of summarizer.py lines 132-143 over the methods ms of one path
RECURSIVE method_edges(_, _, _)
method_edges(ms, path, resource) ==
  IF ms = <<>> THEN <<>>
  ELSE IF ~IsStr(Head(ms)) THEN Raise("AttributeError")
  ELSE LET rest == method_edges(Tail(ms), path, resource)
       IN IF IsRaised(rest) THEN rest
          ELSE verb_edges(UpperChars(Head(ms)[2]), path, resource) \o rest

\* "for method in (methods or {})": the elements the loop visits
methods_iter(methods) ==
  IF ~Truthy(methods) THEN <<>>
  ELSE IF Iterable(methods) THEN IterSeq(methods)
  ELSE Raise("TypeError")

\* summarizer.py lines 127-143 for one entry of paths
path_edges(path, methods) ==
  IF ~IsStr(path) THEN Raise("AttributeError")
  ELSE IF resource_parts(path[2]) = <<>> THEN <<>>
  ELSE IF IsRaised(methods_iter(methods)) THEN methods_iter(methods)
  ELSE method_edges(methods_iter(methods), path[2], resource_parts(path[2])[1])

\* the loop of summarizer.py lines 126-143
RECURSIVE resource_edges(_)
resource_edges(kvs) ==
  IF kvs = <<>> THEN <<>>
  ELSE LET here == path_edges(Head(kvs)[1], Head(kvs)[2])
       IN IF IsRaised(here) THEN here
          ELSE LET rest == resource_edges(Tail(kvs))
               IN IF IsRaised(rest) THEN rest ELSE here \o rest

\* m.upper() for each m of the methods ms of one path
RECURSIVE upper_methods(_)
upper_methods(ms) ==
  IF ms = <<>> THEN <<>>
  ELSE IF ~IsStr(Head(ms)) THEN Raise("AttributeError")
  ELSE LET rest == upper_methods(Tail(ms))
       IN IF IsRaised(rest) THEN rest ELSE <<Str(UpperChars(Head(ms)[2]))>> \o rest

upper_methods_of(ms) == IF IsRaised(ms) THEN ms ELSE upper_methods(ms)

\* summarizer.py line 146: the upper-cased methods of all paths, in the
\* order the comprehension visits them, or the exception it raises
RECURSIVE all_methods(_)
all_methods(kvs) ==
  IF kvs = <<>> THEN <<>>
  ELSE LET here == upper_methods_of(methods_iter(Head(kvs)[2]))
       IN IF IsRaised(here) THEN here
          ELSE LET rest == all_methods(Tail(kvs))
               IN IF IsRaised(rest) THEN rest ELSE here \o rest

Elems(seq) == {seq[i] : i \in 1..Len(seq)}

\* summarizer.py line 147: some step so far holds both "GET" and " --> "
has_get_edge(flow) ==
  \E i \in 1..Len(flow) : IsSubstring(w_GET, flow[i]) /\ IsSubstring(w_arrow, flow[i])

\* summarizer.py lines 147-155
fallback_edges(flow, methods) ==
  (IF ~has_get_edge(flow) /\ Str(w_GET) \in methods
   THEN << <<"T"," ","-","-",">"," ","R","[","G","E","T"," ","r","e","a","d"," ","r","e","s","o","u","r","c","e","]">> >> ELSE <<>>)
  \o (IF Str(w_POST) \in methods THEN << <<"T"," ","-","-",">"," ","C","[","P","O","S","T"," ","c","r","e","a","t","e"," ","r","e","s","o","u","r","c","e","]">> >> ELSE <<>>)
  \o (IF Str(w_PUT) \in methods THEN << <<"T"," ","-","-",">"," ","U","2","[","P","U","T"," ","u","p","d","a","t","e"," ","r","e","s","o","u","r","c","e","]">> >> ELSE <<>>)
  \o (IF Str(w_DELETE) \in methods
      THEN << <<"T"," ","-","-",">"," ","D","[","D","E","L","E","T","E"," ","r","e","m","o","v","e"," ","r","e","s","o","u","r","c","e","]">> >> ELSE <<>>)

flow_tail == << <<Backtick,Backtick,Backtick>> >>

\* summarizer.py lines 146-157 for the flow so far
flow_end(flow, methods) ==
  IF IsRaised(methods) THEN methods
  ELSE flow \o fallback_edges(flow, Elems(methods)) \o flow_tail

\* summarizer.py lines 126-157 given the edges of lines 116-123
flow_with(auth, res, kvs) ==
  IF IsRaised(res) THEN res ELSE flow_end(flow_head \o auth \o res, all_methods(kvs))

flow_of(paths, auth) ==
  IF IsRaised(auth) THEN auth
  ELSE IF ~IsDict(paths) THEN Raise("AttributeError")
  ELSE flow_with(auth, resource_edges(paths[2]), paths[2])

\* the lines of the flow for paths = api_spec.get("paths") or {}
flow_lines(paths) ==
  IF ~Iterable(paths) THEN Raise("TypeError")
  ELSE flow_of(paths, auth_edges(IterSeq(paths)))

generate_flow_lines(api_spec) ==
  flow_lines(Or(PyGet(api_spec, s_paths, None), EmptyDict))

joined(lines) == IF IsRaised(lines) THEN lines ELSE Str(JoinLines(lines, 1))

\* _generate_flow_diagram(api_spec): the text, or the exception raised
generate_flow_diagram(api_spec) == joined(generate_flow_lines(api_spec))

\* summarizer.py lines 57-58: the table row of one (path, method, details)
endpoint_row(t) ==
  <<"|"," ",Backtick>> \o Chars(PyStr(t[1])) \o <<Backtick," ","|"," ",Backtick>>
  \o UpperChars(t[2][2]) \o <<Backtick," ","|"," ">>
  \o Chars(PyStr(Or(Or(DictGet(t[3], s_description, None), DictGet(t[3], s_summary, None)),
                    Str(<<EmDash>>))))
  \o <<" ","|">>

table_head ==
  << <<"#","#","#"," ","E","n","d","p","o","i","n","t","s",":">>,
     <<"|"," ","E","n","d","p","o","i","n","t"," ","|"," ","M","e","t","h","o","d"," ","|"," ",
       "P","u","r","p","o","s","e"," ","|">>,
     <<"|","-","-","-","-","-","-","-","-","-","-","|","-","-","-","-","-","-","-","-","|",
       "-","-","-","-","-","-","-","-","-","|">> >>

\* the rows of summarizer.py lines 54-58 for the triples ts, or the exception
table_rows(ts) ==
  IF IsRaised(ts) THEN ts
  ELSE IF \E i \in 1..Len(ts) : ~IsStr(ts[i][2]) \/ ~IsDict(ts[i][3])
  THEN Raise("AttributeError")
  ELSE table_head \o [i \in 1..Len(ts) |-> endpoint_row(ts[i])]

build_endpoints_rows(api_spec) ==
  table_rows(triples(Or(PyGet(api_spec, s_paths, None), EmptyDict), TRUE))

\* _build_endpoints_table(api_spec): the text, or the exception raised
build_endpoints_table(api_spec) == joined(build_endpoints_rows(api_spec))

\* ------------------------------------------------------------------------
\* The server: one cache, upload requests handled on the event loop, read
\* requests handled on worker threads
\* ------------------------------------------------------------------------
MaxUploads == 2

Uploaders == {"u1"}
Readers == {"r1"}

ReadOps == {"api_summary", "get_spec", "summarize_json", "search", "diagram_flow"}

Keywords ==
  { EmptyStr, Str(<<" ", "\t">>), Str(<<"U","s","e","r","s">>), Str(<<"z","z","z">>),
    Str(<<" ","g","e","t">>), Str(<<"L","i","s","t">>), Str(<<"u","s","e","r","s">>) }

NoDoc == None
NoResponse == Response("none", None)
IdleUpload == [pc |-> "idle", doc |-> NoDoc, resp |-> NoResponse]
IdleRead ==
  [pc |-> "idle", op |-> "none", kw |-> EmptyStr, uploaded |-> FALSE, scanned |-> FALSE,
   gen1 |-> 0, gen2 |-> 0, okAtCheck |-> 0, seen |-> NoDoc, rendered |-> FALSE,
   resp |-> NoResponse]

VARIABLES
  API_SPEC,   \* the global cached normalized spec
  gen,        \* how many times API_SPEC was assigned: the identity of the instance
  srcDoc,     \* the document whose normalization API_SPEC holds
  lastOk,     \* the document of the most recent upload that answered success
  nOk,        \* how many uploads answered success
  nUploads,   \* how many upload requests arrived
  up,         \* the upload request of each client
  rd,         \* the read request of each worker thread
  nDoc,       \* NormSpec: the document given to normalize_spec
  nRes,       \* NormSpec: what normalize_spec returned or raised, once called
  dDoc,       \* DiagSpec: the normalized spec given to a renderer
  dOut,       \* DiagSpec: the renderer called and what it returned or raised
  kIn,        \* KwSpec: the text and top_k given to extract_keywords
  kOut        \* KwSpec: what extract_keywords returned, once called

serverVars == <<API_SPEC, gen, srcDoc, lastOk, nOk, nUploads, up, rd>>
pureVars == <<nDoc, nRes, dDoc, dOut, kIn, kOut>>
vars == <<API_SPEC, gen, srcDoc, lastOk, nOk, nUploads, up, rd, nDoc, nRes, dDoc, dOut, kIn, kOut>>

Pending == <<"pending", <<>>>>

ServerInit ==
  /\ API_SPEC = EmptyDict
  /\ gen = 0
  /\ srcDoc = NoDoc
  /\ lastOk = NoDoc
  /\ nOk = 0
  /\ nUploads = 0
  /\ up = [u \in Uploaders |-> IdleUpload]
  /\ rd = [r \in Readers |-> IdleRead]

\* the variables of the specifications of single functions, when unused
NormIdle == nDoc = NoDoc /\ nRes = NoDoc
DiagIdle == dDoc = NoDoc /\ dOut = NoDoc
KwIdle == kIn = NoDoc /\ kOut = NoDoc

Init ==
  /\ ServerInit
  /\ NormIdle
  /\ DiagIdle
  /\ KwIdle

\* POST /upload-spec arrives; the handler suspends in "await file.read()"
UploadBegin(u) ==
  /\ up[u].pc = "idle"
  /\ nUploads < MaxUploads
  /\ nUploads' = nUploads + 1
  /\ up' = [up EXCEPT ![u].pc = "reading"]
  /\ UNCHANGED <<API_SPEC, gen, srcDoc, lastOk, nOk, rd, pureVars>>

\* what a run of upload_spec on document doc, with result out, leaves
UploadEffect(u, doc, out) ==
  /\ API_SPEC' = out.cache
  /\ gen' = IF out.wrote THEN gen + 1 ELSE gen
  /\ srcDoc' = IF out.wrote THEN doc ELSE srcDoc
  /\ lastOk' = IF out.resp.status = "ok" THEN doc ELSE lastOk
  /\ nOk' = IF out.resp.status = "ok" THEN nOk + 1 ELSE nOk
  /\ up' = [up EXCEPT ![u] = [pc |-> "done", doc |-> doc, resp |-> out.resp]]

\* the rest of upload_spec, which the event loop runs without suspending
UploadHandle(u) ==
  /\ up[u].pc = "reading"
  /\ \E file \in Files : UploadEffect(u, decode(file), upload_spec(file, API_SPEC))
  /\ UNCHANGED <<nUploads, rd, pureVars>>

\* the response is sent
UploadReturn(u) ==
  /\ up[u].pc = "done"
  /\ up' = [up EXCEPT ![u] = IdleUpload]
  /\ UNCHANGED <<API_SPEC, gen, srcDoc, lastOk, nOk, nUploads, rd, pureVars>>

\* a read request arrives and its handler runs "if not API_SPEC" (and, in
\* search, the keyword test that follows without touching the cache)
ReadCheck(r) ==
  /\ rd[r].pc = "idle"
  /\ \E op \in ReadOps :
       \E kw \in (IF op = "search" THEN Keywords ELSE {EmptyStr}) :
         LET uploaded == Truthy(API_SPEC)
             early == returns_early(op, kw, uploaded)
         IN rd' = [rd EXCEPT ![r] =
              [pc |-> IF early THEN "done" ELSE "checked",
               op |-> op, kw |-> kw, uploaded |-> uploaded, scanned |-> FALSE,
               gen1 |-> gen, gen2 |-> gen, okAtCheck |-> nOk,
               seen |-> API_SPEC, rendered |-> FALSE,
               resp |-> IF early
                        THEN read_response(op, kw, uploaded, API_SPEC, FALSE)
                        ELSE NoResponse]]
  /\ UNCHANGED <<API_SPEC, gen, srcDoc, lastOk, nOk, nUploads, up, pureVars>>

\* the handler reads API_SPEC again and computes its response from that value
ReadScan(r) ==
  /\ rd[r].pc = "checked"
  /\ \E rendered \in (IF rd[r].op = "diagram_flow" THEN BOOLEAN ELSE {TRUE}) :
       rd' = [rd EXCEPT ![r].pc = "done", ![r].scanned = TRUE, ![r].gen2 = gen,
                        ![r].seen = API_SPEC, ![r].rendered = rendered,
                        ![r].resp = read_response(rd[r].op, rd[r].kw, TRUE,
                                                  API_SPEC, rendered)]
  /\ API_SPEC' = read_leaves(rd[r].op, rd[r].kw, API_SPEC)
  /\ UNCHANGED <<gen, srcDoc, lastOk, nOk, nUploads, up, pureVars>>

\* the response is sent
ReadReturn(r) ==
  /\ rd[r].pc = "done"
  /\ rd' = [rd EXCEPT ![r] = IdleRead]
  /\ UNCHANGED <<API_SPEC, gen, srcDoc, lastOk, nOk, nUploads, up, pureVars>>

Next ==
  \/ \E u \in Uploaders : UploadBegin(u)
  \/ \E u \in Uploaders : UploadHandle(u)
  \/ \E u \in Uploaders : UploadReturn(u)
  \/ \E r \in Readers : ReadCheck(r)
  \/ \E r \in Readers : ReadScan(r)
  \/ \E r \in Readers : ReadReturn(r)

Spec == Init /\ [][Next]_vars

\* ------------------------------------------------------------------------
\* Properties of the server (specification Spec)
\* ------------------------------------------------------------------------
Rejected(doc) == IsErr(doc) \/ ~IsDict(doc)
RejectionStatuses == {"invalid", "not_object"}

\* C1: an upload whose body cannot be decoded, or whose decoded top level is
\* not a mapping, answers an error and leaves the cache the very instance,
\* with the very content, it was before the request
C1_RejectedUploadKeepsCache ==
  [][\A u \in Uploaders :
       (up[u].pc = "reading" /\ up'[u].pc = "done" /\ Rejected(up'[u].doc))
         => /\ up'[u].resp.status \in RejectionStatuses
            /\ API_SPEC' = API_SPEC
            /\ gen' = gen
            /\ srcDoc' = srcDoc]_vars

\* C1 happens: an upload was rejected while a spec was cached
C1_Witness ==
  \E u \in Uploaders :
    /\ up[u].pc = "done"
    /\ Rejected(up[u].doc)
    /\ up[u].resp.status \in RejectionStatuses
    /\ Truthy(API_SPEC)

\* C2: a read answers "no spec uploaded" exactly when no upload had answered
\* success at the time the read looked at the cache
C2_NoSpecIffNoSuccess ==
  \A r \in Readers :
    rd[r].pc \in {"checked", "done"}
      => ((rd[r].pc = "done" /\ rd[r].resp.status = "no_spec") <=> rd[r].okAtCheck = 0)

\* C3: once an upload has answered success, the cache holds the normalization
\* of the document of the most recent upload that answered success
C3_CacheIsLastSuccessful ==
  lastOk # NoDoc => API_SPEC = normalize_spec(lastOk)

\* C4 as stated: a read that answered looked at one instance of the cache
\* only: the instance it scanned is the instance it checked
C4_ReadSeesOneInstance ==
  \A r \in Readers :
    (rd[r].pc = "done" /\ rd[r].scanned) => rd[r].gen1 = rd[r].gen2

\* the response of read request r, had its handler seen instance spec alone
WholeRead(r, spec) ==
  read_response(rd[r].op, rd[r].kw, Truthy(spec), spec, rd[r].rendered)

\* C4: every response of a read is the response computed from one whole
\* instance of the cache, the one cached when the handler last looked
C4_ResponseFromOneInstance ==
  \A r \in Readers :
    rd[r].pc = "done" => rd[r].resp = WholeRead(r, rd[r].seen)

\* C4 happens: an upload replaced the cache between the check and the scan
\* of a read, and the read answered what the new instance alone answers
C4_Witness ==
  \E r \in Readers :
    /\ rd[r].pc = "done"
    /\ rd[r].scanned
    /\ rd[r].gen1 # rd[r].gen2
    /\ rd[r].seen = API_SPEC
    /\ rd[r].resp = WholeRead(r, API_SPEC)
    /\ rd[r].resp.status = "ok"
    /\ \E u \in Uploaders : up[u].pc = "done" /\ up[u].resp.status = "ok"

KeySet(d) == {d[2][i][1] : i \in 1..Len(d[2])}

\* the verb keys of a spec, where its paths are mappings
VerbKeysOf(spec) ==
  LET paths == DictGet(spec, s_paths, EmptyDict)
  IN IF ~IsDict(paths) THEN {}
     ELSE UNION { IF IsDict(paths[2][i][2]) THEN KeySet(paths[2][i][2]) ELSE {}
                  : i \in 1..Len(paths[2]) }

PathKeysOf(spec) ==
  LET paths == DictGet(spec, s_paths, EmptyDict)
  IN IF IsDict(paths) THEN DictKeys(paths) ELSE <<>>

\* C7: in the cached spec every verb key is a lowercase string, and the path
\* keys of an uploaded OpenAPI document are kept as they were written
C7_VerbKeysLowercase ==
  Truthy(API_SPEC) =>
    /\ \A verb \in VerbKeysOf(API_SPEC) : IsStr(verb) /\ verb = PyLower(verb)
    /\ (IsDict(srcDoc) /\ IsDict(DictGet(srcDoc, s_paths, None))
          => PathKeysOf(API_SPEC) = PathKeysOf(srcDoc))

IsMappingOfMappings(paths) ==
  /\ IsDict(paths)
  /\ \A i \in 1..Len(paths[2]) :
       /\ IsStr(paths[2][i][1])
       /\ IsDict(paths[2][i][2])
       /\ \A j \in 1..Len(paths[2][i][2][2]) : IsDict(paths[2][i][2][2][j][2])

\* C8: the paths of the cached spec are a mapping from path strings to
\* mappings from verbs to operation mappings, and no read fails iterating it
C8_PathsIsMappingOfMappings ==
  /\ Truthy(API_SPEC) => IsMappingOfMappings(DictGet(API_SPEC, s_paths, None))
  /\ \A r \in Readers : rd[r].pc = "done" => rd[r].resp.status # "error"

\* a keyword that is empty or consists of whitespace only
IsBlank(kw) == \A i \in 1..Len(kw[2]) : kw[2][i] \in Whitespace

BlankSearches == {r \in Readers : rd[r].pc = "done" /\ rd[r].op = "search" /\ IsBlank(rd[r].kw)}

\* C10 as stated: a search with a blank keyword answers EmptyKeywordError in
\* every state of the cache
C10_BlankKeywordAlwaysEmptyKeywordError ==
  \A r \in BlankSearches : rd[r].resp.status = "empty_keyword"

\* C10: a search with a blank keyword never scans the cache; it answers
\* EmptyKeywordError when a spec is cached and "no spec uploaded" when none is
C10_BlankKeywordNeverScans ==
  \A r \in BlankSearches :
    /\ ~rd[r].scanned
    /\ rd[r].resp.status = IF rd[r].uploaded THEN "empty_keyword" ELSE "no_spec"

\* C10 happens: a whitespace-only keyword was searched while a spec was cached
C10_Witness ==
  \E r \in BlankSearches :
    /\ rd[r].kw # EmptyStr
    /\ rd[r].uploaded
    /\ rd[r].resp.status = "empty_keyword"

\* ------------------------------------------------------------------------
\* normalize_spec as a function of its input: the documents it is given
\* ------------------------------------------------------------------------
MaxDepth == 3

\* Postman request items, and an item without a request
ItemGetA ==
  Dict(<<
    <<Str(<<"n","a","m","e">>), Str(<<"A">>)>>,
    <<Str(<<"r","e","q","u","e","s","t">>),
      Dict(<<
        <<Str(<<"m","e","t","h","o","d">>), Str(<<"G","E","T">>)>>,
        <<Str(<<"u","r","l">>), Str(<<"/","a">>)>> >>)>> >>)

ItemPostAId ==
  Dict(<<
    <<Str(<<"n","a","m","e">>), Str(<<"B">>)>>,
    <<Str(<<"r","e","q","u","e","s","t">>),
      Dict(<<
        <<Str(<<"m","e","t","h","o","d">>), Str(<<"p","o","s","t">>)>>,
        <<Str(<<"u","r","l">>),
          Dict(<<
            <<Str(<<"p","a","t","h">>),
              List(<<Str(<<"a">>), Str(<<"{","i","d","}">>)>>)>> >>)>> >>)>> >>)

ItemGetAAgain ==
  Dict(<<
    <<Str(<<"n","a","m","e">>), Str(<<"C">>)>>,
    <<Str(<<"r","e","q","u","e","s","t">>),
      Dict(<<
        <<Str(<<"u","r","l">>), Str(<<"/","a">>)>>,
        <<Str(<<"d","e","s","c","r","i","p","t","i","o","n">>),
          Str(<<"a","g","a","i","n">>)>> >>)>> >>)

ItemNoRequest ==
  Dict(<<<<Str(<<"n","a","m","e">>), Str(<<"n","o","n","e">>)>>>>)

ItemEmptyRequest ==
  Dict(<< <<s_name, Str(<<"E">>)>>, <<s_request, EmptyDict>> >>)

LeafItems == {ItemGetA, ItemPostAId, ItemGetAAgain, ItemNoRequest, ItemEmptyRequest}

\* a folder: an item with nested items
Folder(items) == Dict(<< <<s_name, Str(<<"F">>)>>, <<s_item, List(items)>> >>)

\* an item with nested items that carries a request of its own as well
s_PUT == Str(<<"P","U","T">>)
s_folder_url == Str(<<"/","f","o","l","d","e","r">>)
FolderWithRequest(items) ==
  Dict(<< <<s_name, Str(<<"F","R">>)>>,
          <<s_item, List(items)>>,
          <<s_request, Dict(<< <<s_method, s_PUT>>, <<s_url, s_folder_url>> >>)>> >>)

\* the items nested at most depth folders deep
RECURSIVE ItemsUpTo(_)
ItemsUpTo(depth) ==
  IF depth = 0 THEN LeafItems
  ELSE LET below == ItemsUpTo(depth - 1)
       IN LeafItems
          \cup {Folder(<<t>>) : t \in below}
          \cup {Folder(<<ItemGetA, t>>) : t \in below}
          \cup {Folder(<<t, ItemGetAAgain>>) : t \in below}
          \cup {FolderWithRequest(<<t>>) : t \in below}

PostmanDocs ==
  LET items == ItemsUpTo(MaxDepth)
  IN {Dict(<< <<s_info, Dict(<< <<s_name, Str(<<"C","o","l">>)>> >>)>>,
              <<s_item, List(<<t>>)>> >>) : t \in items}
     \cup {Dict(<< <<s_item, List(<<t, ItemPostAId>>)>> >>) : t \in items}

\* documents that meet any combination of the detector's conditions: each
\* field is absent, present in the shape its strategy wants, or present in
\* another shape
PathsMapping ==
  Dict(<<
    <<Str(<<"/","p">>),
      Dict(<<
        <<Str(<<"G","E","T">>),
          Dict(<<
            <<Str(<<"s","u","m","m","a","r","y">>), Str(<<"O","n","e">>)>> >>)>> >>)>> >>)

EndpointsList ==
  List(<<
    Dict(<<
      <<Str(<<"p","a","t","h">>), Str(<<"/","e">>)>>,
      <<Str(<<"m","e","t","h","o","d">>), Str(<<"P","u","t">>)>>,
      <<Str(<<"n","a","m","e">>), Str(<<"E">>)>> >>) >>)

InfoMapping ==
  Dict(<<
    <<Str(<<"t","i","t","l","e">>), Str(<<"I">>)>>,
    <<Str(<<"n","a","m","e">>), Str(<<"I","N">>)>>,
    <<Str(<<"v","e","r","s","i","o","n">>), Str(<<"1">>)>> >>)

PathLikeValue ==
  Dict(<<
    <<Str(<<"D","e","l","e","t","e">>),
      Dict(<<<<Str(<<"s","u","m","m","a","r","y">>), Str(<<"K">>)>>>>)>> >>)

s_k == Str(<<"/","k">>)
Absent == <<>>
Field(k, v) == << <<k, v>> >>

PathsChoices == {Absent, Field(s_paths, PathsMapping), Field(s_paths, List(<<s_k>>))}
ItemChoices == {Absent, Field(s_item, List(<<ItemGetA>>)), Field(s_item, s_k)}
EndpointsChoices == {Absent, Field(s_endpoints, EndpointsList), Field(s_endpoints, Num(1))}
SwaggerChoices == {Absent, Field(s_swagger, Str(<<"2">>))}
OpenapiChoices == {Absent, Field(s_openapi, Str(<<"3">>))}
PathLikeChoices == {Absent, Field(s_k, PathLikeValue)}
MetaChoices ==
  { Absent, Field(s_info, InfoMapping),
    Field(s_name, Str(<<"N">>)) \o Field(s_version, Num(2)) \o Field(s_title, Str(<<"T">>)) }

ChainDocs ==
  { Dict(k \o m \o o \o s \o e \o i \o p) :
      k \in PathLikeChoices, m \in MetaChoices, o \in OpenapiChoices,
      s \in SwaggerChoices, e \in EndpointsChoices, i \in ItemChoices,
      p \in PathsChoices }

\* decoded mappings of odd structure
OddItemNumber ==
  Dict(<<<<Str(<<"i","t","e","m">>), List(<<Num(5)>>)>>>>)

OddItemString ==
  Dict(<<<<Str(<<"i","t","e","m">>), List(<<Str(<<"x">>)>>)>>>>)

OddRequestString ==
  Dict(<<
    <<Str(<<"i","t","e","m">>),
      List(<<
        Dict(<<
          <<Str(<<"n","a","m","e">>), Str(<<"A">>)>>,
          <<Str(<<"r","e","q","u","e","s","t">>),
            Str(<<"G","E","T"," ","/","a">>)>> >>) >>)>> >>)

OddEndpointString ==
  Dict(<<
    <<Str(<<"e","n","d","p","o","i","n","t","s">>),
      List(<<Str(<<"/","a">>)>>)>> >>)

OddVerbValue ==
  Dict(<<
    <<Str(<<"/","a">>),
      Dict(<<<<Str(<<"g","e","t">>), Str(<<"t","e","x","t">>)>>>>)>> >>)

OddNestedItems ==
  Dict(<<
    <<Str(<<"i","t","e","m">>),
      List(<<Dict(<<<<Str(<<"i","t","e","m">>), Num(5)>>>>)>>)>> >>)

OddMethodNumber ==
  Dict(<<
    <<Str(<<"i","t","e","m">>),
      List(<<
        Dict(<<
          <<Str(<<"r","e","q","u","e","s","t">>),
            Dict(<<
              <<Str(<<"m","e","t","h","o","d">>), Num(7)>>,
              <<Str(<<"u","r","l">>), Str(<<"/","a">>)>> >>)>> >>) >>)>> >>)

OddNoEndpoint ==
  Dict(<<
    <<Str(<<"n","o","t","e">>),
      Str(<<"n","o","t","h","i","n","g"," ","h","e","r","e">>)>>,
    <<Str(<<"i","t","e","m","s">>), List(<<Num(1)>>)>> >>)

OddDocs ==
  {OddItemNumber, OddItemString, OddRequestString, OddEndpointString,
   OddVerbValue, OddNestedItems, OddMethodNumber, OddNoEndpoint}

\* Postman collections of one leaf item, over the shapes of its request's
\* method, url and raw fields
UrlChoices ==
  { Absent, Field(s_url, Str(<<"/","a">>)), Field(s_url, Dict(<<<<Str(<<"p","a","t","h">>), List(<<Str(<<"a">>), Str(<<"{","i","d","}">>)>>)>>>>)), Field(s_url, Dict(<<<<Str(<<"p","a","t","h">>), List(<<>>)>>>>)), Field(s_url, EmptyDict),
    Field(s_url, Dict(<<<<Str(<<"r","a","w">>), Str(<<"x">>)>>>>)), Field(s_url, Dict(<<<<Str(<<"p","a","t","h">>), Str(<<"u","s","e","r","s">>)>>>>)), Field(s_url, Dict(<<<<Str(<<"p","a","t","h">>), Num(5)>>>>)) }
RawChoices == { Absent, Field(s_raw, Str(<<"/","r","a","w">>)) }
MethodChoices == { Absent, Field(s_method, s_GET), Field(s_method, Str(<<"P","o","s","t">>)) }

UrlItem(req) == Dict(<< <<s_name, Str(<<"U">>)>>, <<s_request, Dict(req)>> >>)

UrlDocs ==
  {Dict(<< <<s_item, List(<<UrlItem(m \o u \o r)>>)>> >>) :
     m \in MethodChoices, u \in UrlChoices, r \in RawChoices}

NormDocs == ChainDocs \cup PostmanDocs \cup OddDocs \cup UrlDocs

NormInit ==
  /\ ServerInit
  /\ nDoc \in NormDocs
  /\ nRes = Pending
  /\ DiagIdle
  /\ KwIdle

\* normalize_spec is called on the document
Normalize ==
  /\ nRes = Pending
  /\ nRes' = normalize_spec(nDoc)
  /\ UNCHANGED <<serverVars, nDoc, dDoc, dOut, kIn, kOut>>

NormNext == Normalize

NormSpec == NormInit /\ [][NormNext]_vars

\* ------------------------------------------------------------------------
\* Properties of normalize_spec (specification NormSpec)
\* ------------------------------------------------------------------------
Normalized == nRes # Pending

\* C5: normalize_spec returns a CanonicalSpec for every decoded mapping, of
\* whatever internal structure, and never raises
C5_NormalizeNeverRaises ==
  Normalized => (~IsErr(nRes) /\ IsDict(nRes) /\ DictHas(nRes, s_paths))

HasA(d, k, Shape(_)) == DictHas(d, k) /\ Shape(DictAt(d, k))

\* the first condition of the detector's chain that a document meets
Rank(d) ==
  IF HasA(d, s_paths, IsDict) THEN 1
  ELSE IF HasA(d, s_item, IsList) THEN 2
  ELSE IF HasA(d, s_endpoints, IsList) THEN 3
  ELSE IF DictHas(d, s_swagger) \/ DictHas(d, s_openapi) THEN 4
  ELSE 5

\* the fields that belong to the strategy of each rank
OwnField(rank, k) ==
  CASE rank = 1 -> k \in {s_info, s_paths}
    [] rank = 2 -> k \in {s_info, s_item}
    [] rank = 3 -> k \in {s_info, s_name, s_version, s_endpoints}
    [] rank = 4 -> k \in {s_info, s_paths}
    [] rank = 5 -> k \in {s_info, s_title} \/ (IsStr(k) /\ StartsWithSlash(k))

OwnFields(d) ==
  LET rank == Rank(d)
      Own(kv) == OwnField(rank, kv[1])
  IN Dict(SelectSeq(d[2], Own))

Strategy(rank, d) ==
  CASE rank = 1 -> normalize_openapi(d)
    [] rank = 2 -> normalize_postman(d)
    [] rank = 3 -> normalize_custom_endpoints(d)
    [] rank = 4 -> normalize_openapi(d)
    [] rank = 5 -> normalize_minimal(d)

\* C6: a document is converted by the strategy of the first condition it
\* meets, in the order paths mapping, item sequence, endpoints sequence,
\* swagger or openapi key, fallback; the result is what that strategy makes of
\* its own fields, so the fields of the other strategies contribute nothing
C6_EarliestStrategyOnly ==
  Normalized => nRes = Strategy(Rank(nDoc), OwnFields(nDoc))

\* C6 happens: a document that meets every condition was converted from its
\* paths mapping, and the later strategies would have answered otherwise
C6_Witness ==
  /\ Normalized
  /\ HasA(nDoc, s_paths, IsDict)
  /\ HasA(nDoc, s_item, IsList)
  /\ HasA(nDoc, s_endpoints, IsList)
  /\ DictHas(nDoc, s_swagger)
  /\ DictHas(nDoc, s_k)
  /\ nRes = CanonicalSpec(DictGet(nDoc, s_info, EmptyDict), DictAt(nDoc, s_paths))
  /\ nRes # normalize_postman(nDoc)
  /\ nRes # normalize_custom_endpoints(nDoc)
  /\ nRes # normalize_minimal(nDoc)

\* every item of a Postman item list, at any depth, in the order of the walk
RECURSIVE AllItems(_)
AllItems(items) ==
  IF items = <<>> THEN <<>>
  ELSE LET it == Head(items)
       IN <<it>>
          \o (IF HasA(it, s_item, IsList) THEN AllItems(DictAt(it, s_item)[2]) ELSE <<>>)
          \o AllItems(Tail(items))

\* an item that carries a request: a non-empty request mapping
CarriesRequest(it) ==
  /\ HasA(it, s_request, IsDict)
  /\ DictAt(it, s_request)[2] # <<>>

IsLeaf(it) == ~DictHas(it, s_item)
LeafRequest(it) == CarriesRequest(it) /\ IsLeaf(it)

ItemPath(it) == postman_path(DictAt(it, s_request))
ItemVerb(it) == PyLower(Or(DictGet(DictAt(it, s_request), s_method, None), s_GET))
ItemSummary(it) == Or(DictGet(it, s_name, None), EmptyStr)

Recorded(paths, it) ==
  /\ DictHas(paths, ItemPath(it))
  /\ DictHas(DictAt(paths, ItemPath(it)), ItemVerb(it))

RecordedFrom(paths, it) ==
  DictGet(DictAt(DictAt(paths, ItemPath(it)), ItemVerb(it)), s_summary, None)
    = ItemSummary(it)

SamePair(a, b) == ItemPath(a) = ItemPath(b) /\ ItemVerb(a) = ItemVerb(b)

PostmanItems == AllItems(DictAt(nDoc, s_item)[2])

DeepDoc ==
  Dict(<< <<s_item,
            List(<<Folder(<<Folder(<<Folder(<<ItemGetAAgain>>), ItemGetAAgain>>)>>),
                   ItemPostAId>>)>> >>)

RECURSIVE FlattenPaths(_)
FlattenPaths(kvs) ==
  IF kvs = <<>> THEN <<>>
  ELSE [j \in 1..Len(Head(kvs)[2][2]) |->
          <<Head(kvs)[1], Head(kvs)[2][2][j][1], Head(kvs)[2][2][j][2]>>]
       \o FlattenPaths(Tail(kvs))

\* needle is a substring of the lowercased path, of the lowercased verb or of
\* the lowercased serialized operation of triple t
MatchesTriple(needle, t) ==
  \/ IsSubstring(needle, LowerChars(t[1][2]))
  \/ IsSubstring(needle, LowerChars(t[2][2]))
  \/ IsSubstring(needle, LowerChars(DumpsChars(t[3])))

MatchingTriples(needle, spec) ==
  LET Hit(t) == MatchesTriple(needle, t)
  IN SelectSeq(FlattenPaths(DictAt(spec, s_paths)[2]), Hit)

\* a spec whose paths map strings to mappings from strings to operations
Searchable(spec) ==
  /\ IsDict(spec)
  /\ IsMappingOfMappings(DictGet(spec, s_paths, None))
  /\ \A verb \in VerbKeysOf(spec) : IsStr(verb)

\* the searches that answered after scanning a spec, with a non-blank keyword
ScannedSearches ==
  {r \in Readers : /\ rd[r].pc = "done" /\ rd[r].op = "search" /\ rd[r].scanned
                   /\ ~IsBlank(rd[r].kw) /\ Searchable(rd[r].seen)}

\* the answer of search r is made of exactly the triples that match needle,
\* in the order of the spec, or is the empty-result signal when none matches
AnswersExactly(r, needle) ==
  LET expected == MatchingTriples(needle, rd[r].seen)
  IN IF expected = <<>>
     THEN rd[r].resp.status = "no_matches"
     ELSE /\ rd[r].resp.status = "ok"
          /\ IsMappingOfMappings(rd[r].resp.body)
          /\ FlattenPaths(rd[r].resp.body[2]) = expected

\* C11: search with a non-blank keyword k answers exactly the (path, verb)
\* pairs for which lowercase(k) is a substring of the lowercased path, verb or
\* serialized operation, in the order of the spec, and the empty-result
\* signal when no pair matches
C11_SearchExactMatches ==
  \A r \in ScannedSearches : AnswersExactly(r, LowerChars(rd[r].kw[2]))

\* the same with the keyword lowercased and stripped of surrounding whitespace
C11_SearchExactMatchesStripped ==
  \A r \in ScannedSearches : AnswersExactly(r, Strip(LowerChars(rd[r].kw[2])))
\* ------------------------------------------------------------------------
\* The renderers on their own: one normalized spec, one call of
\* format_api_summary (main.py) or of _generate_flow_diagram or
\* _build_endpoints_table (nlp/summarizer.py)
\* ------------------------------------------------------------------------
MaxPaths == 2

DiagKeys ==
  { Str(<<"/","u","s","e","r","s">>),
    Str(<<"/","u","s","e","r","s","/","{","i","d","}">>),
    Str(<<"/","u","s","e","r","s","/","{","u","i","d","}">>),
    Str(<<"/","u","s","e","r","s","/","i","d">>),
    Str(<<"/","l","o","g","i","n">>),
    Str(<<"/","a","u","t","h">>),
    Str(<<"/","s","i","g","n","u","p">>),
    Str(<<"/","r","e","g","i","s","t","e","r">>),
    Str(<<"/","a","u","t","h","/","t","o","k","e","n">>),
    Str(<<"/","{","i","d","}">>) }

DiagMethods ==
  { Dict(<<<<Str(<<"g","e","t">>), Dict(<<<<Str(<<"s","u","m","m","a","r","y">>), Str(<<"L","i","s","t"," ","u","s","e","r","s">>)>>>>)>>, <<Str(<<"p","o","s","t">>), Dict(<<>>)>>>>),
    Dict(<<<<Str(<<"p","u","t">>), Dict(<<>>)>>, <<Str(<<"d","e","l","e","t","e">>), Dict(<<>>)>>, <<Str(<<"p","a","t","c","h">>), Dict(<<>>)>>>>) }

\* the entries of a paths mapping with n distinct keys, in every order
RECURSIVE PathEntries(_)
PathEntries(n) ==
  IF n = 0 THEN {<<>>}
  ELSE {Append(e[1], <<e[2], e[3]>>) :
          e \in {x \in PathEntries(n - 1) \X DiagKeys \X DiagMethods :
                   \A i \in 1..Len(x[1]) : x[1][i][1] /= x[2]}}

DiagDocs ==
  {CanonicalSpec(EmptyDict, Dict(kvs)) : kvs \in UNION {PathEntries(n) : n \in 0..MaxPaths}}

DiagInit ==
  /\ ServerInit
  /\ NormIdle
  /\ KwIdle
  /\ dDoc \in DiagDocs
  /\ dOut = Pending

\* format_api_summary of main.py is called on the spec
RenderSummary ==
  /\ dOut = Pending
  /\ dOut' = <<"summary", format_api_summary(dDoc)>>
  /\ UNCHANGED <<serverVars, nDoc, nRes, dDoc, kIn, kOut>>

\* _generate_flow_diagram of nlp/summarizer.py is called on the spec
SynthesizeFlow ==
  /\ dOut = Pending
  /\ dOut' = <<"flow", generate_flow_diagram(dDoc)>>
  /\ UNCHANGED <<serverVars, nDoc, nRes, dDoc, kIn, kOut>>

\* _build_endpoints_table of nlp/summarizer.py is called on the spec
BuildTable ==
  /\ dOut = Pending
  /\ dOut' = <<"table", build_endpoints_table(dDoc)>>
  /\ UNCHANGED <<serverVars, nDoc, nRes, dDoc, kIn, kOut>>

DiagNext == RenderSummary \/ SynthesizeFlow \/ BuildTable

DiagSpec == DiagInit /\ [][DiagNext]_vars

\* ------------------------------------------------------------------------
\* Properties of the renderers (specification DiagSpec)
\* ------------------------------------------------------------------------
\* the lines of a text
NthOf(positions, k) ==
  CHOOSE i \in positions : Cardinality({j \in positions : j <= i}) = k

LinesAt(cs, nl) ==
  [k \in 1..(Cardinality(nl) + 1) |->
     SubSeq(cs, IF k = 1 THEN 1 ELSE NthOf(nl, k - 1) + 1,
                IF k = Cardinality(nl) + 1 THEN Len(cs) ELSE NthOf(nl, k) - 1)]

TextLines(cs) == LinesAt(cs, {i \in 1..Len(cs) : cs[i] = "\n"})

StartsWith(cs, prefix) ==
  Len(cs) >= Len(prefix) /\ SubSeq(cs, 1, Len(prefix)) = prefix

Rendered(kind) == dOut[1] = kind /\ IsStr(dOut[2])
OutLines == TextLines(dOut[2][2])
DiagPaths == DictAt(dDoc, s_paths)

ClientArrow == <<"C","l","i","e","n","t"," ","-","-",">"," ">>

\* the edges of the summary's diagram, in order: one per (path, verb)
ClientEdges(lines) == SelectSeq(lines, LAMBDA l : StartsWith(l, ClientArrow))

\* the node identifier of an edge "Client --> id[label]"
RECURSIVE UpToBracket(_)
UpToBracket(cs) ==
  IF cs = <<>> \/ Head(cs) = "[" THEN <<>> ELSE <<Head(cs)>> \o UpToBracket(Tail(cs))

NodeId(edge) == UpToBracket(SubSeq(edge, Len(ClientArrow) + 1, Len(edge)))

NodeIds(edges) == [i \in 1..Len(edges) |-> NodeId(edges[i])]

\* the identifiers ids of the edges drawn for the triples ts tell the
\* (verb, path) pairs apart
DistinctIds(ids, ts) ==
  /\ Len(ids) = Len(ts)
  /\ \A i, j \in 1..Len(ts) :
       <<ts[i][1], ts[i][2]>> /= <<ts[j][1], ts[j][2]>> => ids[i] /= ids[j]

\* C12: two different (verb, path) pairs of one spec never get the same node
\* identifier in the diagram of the summary, also when their paths differ
\* only in the characters "/", "{" and "}"
C12_DistinctPairsDistinctIds ==
  Rendered("summary") => DistinctIds(NodeIds(ClientEdges(OutLines)), triples(DiagPaths, FALSE))
\* ------------------------------------------------------------------------
\* Reads and the cache (specification Spec)
\* ------------------------------------------------------------------------
ReadStep == rd' /= rd

\* C13: no step of a read handler, successful or failed, changes the cached
\* spec: after it the cache holds the same instance with the same content
C13_ReadsKeepCache ==
  [][ReadStep => (API_SPEC' = API_SPEC /\ gen' = gen /\ srcDoc' = srcDoc)]_vars

\* a search that scanned a cached spec, answered with matches that leave some
\* operation out, and left the cache as it found it
C13_Witness ==
  \E r \in Readers :
    /\ rd[r].pc = "done"
    /\ rd[r].op = "search"
    /\ rd[r].scanned
    /\ rd[r].resp.status = "ok"
    /\ Truthy(API_SPEC)
    /\ rd[r].seen = API_SPEC
    /\ rd[r].resp.body /= DictAt(API_SPEC, s_paths)
\* ------------------------------------------------------------------------
\* The scenario of the minimal OpenAPI document (specification Spec)
\* ------------------------------------------------------------------------
s_users_path == Str(<<"/","u","s","e","r","s">>)
s_get == Str(<<"g","e","t">>)
s_users == Str(<<"u","s","e","r","s">>)

\* the line of the summary and the row of the endpoints table for
\* /users, GET, List users
UsersOverviewLine == <<"-"," ","*","*","G","E","T"," ","/","u","s","e","r","s","*","*"," ",EmDash," ","L","i","s","t"," ","u","s","e","r","s">>
UsersTableRow == <<"|"," ",Backtick,"/","u","s","e","r","s",Backtick," ","|"," ",Backtick,"G","E","T",Backtick," ","|"," ","L","i","s","t"," ","u","s","e","r","s"," ","|">>

HasLine(text, line) == \E i \in 1..Len(TextLines(text[2])) : TextLines(text[2])[i] = line

\* a read that answered from a cache holding spec
AnsweredFrom(r, op, spec) ==
  rd[r].pc = "done" /\ rd[r].scanned /\ rd[r].op = op /\ rd[r].seen = spec

\* C14: uploading the minimal OpenAPI document succeeds; afterwards the cached
\* paths has exactly the key /users with exactly the verb get, the Markdown
\* summary and the endpoints table have a row for /users, GET, List users,
\* and search("users") returns exactly one match
C14_MinimalDocumentScenario ==
  /\ \A u \in Uploaders :
       (up[u].pc = "done" /\ up[u].doc = D_users) => up[u].resp.status = "ok"
  /\ srcDoc = D_users =>
       /\ DictKeys(DictAt(API_SPEC, s_paths)) = <<s_users_path>>
       /\ DictKeys(DictAt(DictAt(API_SPEC, s_paths), s_users_path)) = <<s_get>>
       /\ HasLine(build_endpoints_table(API_SPEC), UsersTableRow)
  /\ \A r \in Readers :
       /\ AnsweredFrom(r, "api_summary", normalize_spec(D_users)) =>
            (rd[r].resp.status = "ok" /\ HasLine(rd[r].resp.body, UsersOverviewLine))
       /\ (AnsweredFrom(r, "search", normalize_spec(D_users)) /\ rd[r].kw = s_users) =>
            /\ rd[r].resp.status = "ok"
            /\ Len(triples(rd[r].resp.body, FALSE)) = 1
            /\ triples(rd[r].resp.body, FALSE) = triples(DictAt(rd[r].seen, s_paths), FALSE)

\* the first upload was the minimal document and search("users") answered
\* from the spec it left
C14_Witness ==
  /\ nUploads = 1
  /\ nOk = 1
  /\ srcDoc = D_users
  /\ \E r \in Readers :
       /\ AnsweredFrom(r, "search", API_SPEC)
       /\ rd[r].kw = s_users
       /\ rd[r].resp.status = "ok"
\* ------------------------------------------------------------------------
\* The flow diagram of nlp/summarizer.py (specification DiagSpec)
\* ------------------------------------------------------------------------
AuthEdges == Elems(signup_edges) \cup Elems(login_edges) \cup Elems(token_edges)

IsEdge(line) == IsSubstring(w_arrow, line)
Occurrences(lines, line) == Cardinality({i \in 1..Len(lines) : lines[i] = line})

\* each auth-flow edge at most once among lines, all of them before the
\* other edges, and nothing but the entry node when there is no path
AuthFlowFirst(lines, paths) ==
  /\ \A a \in AuthEdges : Occurrences(lines, a) <= 1
  /\ \A i, j \in 1..Len(lines) :
       (lines[i] \in AuthEdges /\ IsEdge(lines[j]) /\ lines[j] \notin AuthEdges) => i < j
  /\ paths[2] = <<>> =>
       (lines = flow_head \o flow_tail /\ \A i \in 1..Len(lines) : ~IsEdge(lines[i]))

\* C15: in the flow diagram each auth-flow edge appears at most once, however
\* many paths match, every auth-flow edge comes before every resource edge,
\* and a spec without paths gives the bare entry node and no edge
C15_AuthEdgesOnceAndFirst ==
  Rendered("flow") => AuthFlowFirst(OutLines, DiagPaths)

\* two paths that both match signup/register, one account-creation edge, and
\* a resource edge after it
SignupTwice(lines, keys) ==
  /\ Len(keys) = 2
  /\ \A i \in 1..2 : is_signup(keys[i])[2]
  /\ Occurrences(lines, signup_edges[1]) = 1
  /\ \E j \in 1..Len(lines) : IsEdge(lines[j]) /\ lines[j] \notin AuthEdges

C15_Witness == Rendered("flow") /\ SignupTwice(OutLines, DictKeys(DiagPaths))
\* ------------------------------------------------------------------------
\* extract_keywords on its own: one text, one top_k, one call
\* ------------------------------------------------------------------------
MaxWords == 3

Vocabulary == { <<"t","h","e">>, <<"c","a","t">>, <<"s","a","t">>, <<"m","a","t">>, <<"C","a","t">>, <<"a","b">> }

\* "the cat sat on the cat mat"
ExampleText == Str(<<"t","h","e"," ","c","a","t"," ","s","a","t"," ","o","n"," ","t","h","e"," ","c","a","t"," ","m","a","t">>)

RECURSIVE JoinSpace(_)
JoinSpace(ws) ==
  IF ws = <<>> THEN <<>>
  ELSE IF Len(ws) = 1 THEN ws[1]
  ELSE ws[1] \o <<" ">> \o JoinSpace(Tail(ws))

Texts ==
  {Str(JoinSpace(ws)) : ws \in UNION {[1..n -> Vocabulary] : n \in 0..MaxWords}}
  \cup {ExampleText}

TopKs == {1, 2, TopK}

KwInit ==
  /\ ServerInit
  /\ NormIdle
  /\ DiagIdle
  /\ kIn \in Texts \X TopKs
  /\ kOut = Pending

\* extract_keywords(text, top_k) is called
ExtractKeywords ==
  /\ kOut = Pending
  /\ kOut' = extract_keywords(kIn[1], kIn[2])
  /\ UNCHANGED <<serverVars, nDoc, nRes, dDoc, dOut, kIn>>

KwNext == ExtractKeywords

KwSpec == KwInit /\ [][KwNext]_vars

\* ------------------------------------------------------------------------
\* Properties of extract_keywords (specification KwSpec)
\* ------------------------------------------------------------------------
Extracted == kOut /= Pending /\ kOut /= NoDoc

\* the words of a text of words separated by single spaces, lowercased
WordsOf(cs) == LinesAt(LowerChars(cs), {i \in 1..Len(cs) : cs[i] = " "})

Qualifies(w) == Len(w) >= MinKeywordLen /\ w \notin STOPWORDS
Frequency(ws, w) == Cardinality({i \in 1..Len(ws) : ws[i] = w})
FirstAt(ws, w) == CHOOSE i \in 1..Len(ws) : ws[i] = w /\ \A j \in 1..(i - 1) : ws[j] /= w

\* v ranks before w: more frequent, or as frequent and met first
RanksBefore(ws, v, w) ==
  \/ Frequency(ws, v) > Frequency(ws, w)
  \/ Frequency(ws, v) = Frequency(ws, w) /\ FirstAt(ws, v) < FirstAt(ws, w)

Smaller(a, b) == IF a < b THEN a ELSE b

\* res is the top_k best ranked of the qualifying words of ws
TopRanked(res, ws, top_k) ==
  /\ Len(res) = Smaller(top_k, Cardinality({w \in Elems(ws) : Qualifies(w)}))
  /\ \A i \in 1..Len(res) : IsStr(res[i]) /\ res[i][2] \in Elems(ws) /\ Qualifies(res[i][2])
  /\ \A i, j \in 1..Len(res) : i < j => RanksBefore(ws, res[i][2], res[j][2])
  /\ \A w \in Elems(ws) :
       (Qualifies(w) /\ \A i \in 1..Len(res) : res[i][2] /= w)
         => \A i \in 1..Len(res) : RanksBefore(ws, res[i][2], w)

ExampleKeywords == <<Str(<<"c","a","t">>), Str(<<"s","a","t">>), Str(<<"m","a","t">>)>>

\* C16: extract_keywords returns at most top_k tokens, none a stop word or
\* shorter than 3 characters, by descending frequency in the lowercased text,
\* equal frequencies in the order of first occurrence; for "the cat sat on
\* the cat mat" these are cat, sat, mat
C16_KeywordsRanked ==
  Extracted =>
    /\ IsList(kOut)
    /\ Len(kOut[2]) <= kIn[2]
    /\ TopRanked(kOut[2], WordsOf(kIn[1][2]), kIn[2])
    /\ kIn[1] = ExampleText =>
         kOut[2] = SubSeq(ExampleKeywords, 1, Smaller(kIn[2], Len(ExampleKeywords)))

\* the keywords of the example text, all three of them
C16_Witness ==
  /\ kIn = <<ExampleText, TopK>>
  /\ Extracted
  /\ kOut = List(ExampleKeywords)
\* the identifier of the node the claim gives to verb m (upper case) on path:
\* detail view for a GET on a path with a parameter segment, list view for
\* any other GET, then create, update, delete
NodePrefix(m, path) ==
  CASE m = w_GET /\ HasBrace(path) -> <<"G","_">>
    [] m = w_GET /\ ~HasBrace(path) -> <<"L","_">>
    [] m = w_POST -> <<"C","_">>
    [] m = w_PUT -> <<"U","_">>
    [] m = w_DELETE -> <<"D","_">>

ResourceVerbs == {w_GET, w_POST, w_PUT, w_DELETE}

\* some line is an edge into node
HasEdgeTo(lines, node) ==
  \E i \in 1..Len(lines) : IsSubstring(w_arrow \o node \o <<"[">>, lines[i])

\* every (path, verb) of ts with a resource and one of the four verbs has the
\* edge into its node among lines
EdgePerPathVerb(lines, ts) ==
  \A i \in 1..Len(ts) :
    (UpperChars(ts[i][2][2]) \in ResourceVerbs /\ resource_parts(ts[i][1][2]) /= <<>>)
      => HasEdgeTo(lines, NodePrefix(UpperChars(ts[i][2][2]), ts[i][1][2])
                          \o resource_parts(ts[i][1][2])[1])

\* C17: for every (path, verb) the flow diagram has an edge into the node of
\* the path's resource and the verb; a GET on a path with any parameter
\* segment goes to the detail view, a GET on a path without one to the list
\* view, POST, PUT and DELETE to the create, update and delete nodes
C17_EdgePerPathVerb ==
  Rendered("flow") => EdgePerPathVerb(OutLines, triples(DiagPaths, FALSE))
\* ------------------------------------------------------------------------
\* Verb and path of a Postman request (specification NormSpec)
\* ------------------------------------------------------------------------
IsSegments(p) == IsList(p) /\ \A i \in 1..Len(p[2]) : IsStr(p[2][i])

\* the path the claim gives to a request with URL url (None when absent)
ClaimedPath(url) ==
  IF IsDict(url) /\ HasA(url, s_path, IsSegments)
  THEN Str(<<"/">> \o JoinSlash(DictAt(url, s_path)[2], 1))
  ELSE IF IsStr(url) THEN url
  ELSE s_slash

\* the verb the claim gives to a request: its method lowercased, get if absent
ClaimedVerb(req) ==
  IF DictHas(req, s_method) THEN Str(LowerChars(DictAt(req, s_method)[2]))
  ELSE Str(<<"g","e","t">>)

\* paths records exactly the request req, under the claimed path and verb
RecordsAsClaimed(paths, req) ==
  /\ IsDict(paths)
  /\ DictKeys(paths) = <<ClaimedPath(DictGet(req, s_url, None))>>
  /\ DictKeys(DictAt(paths, ClaimedPath(DictGet(req, s_url, None)))) = <<ClaimedVerb(req)>>

UrlRequest == DictAt(DictAt(nDoc, s_item)[2][1], s_request)

\* C18: a Postman leaf item with a request is recorded under the request's
\* method lowercased (get when absent) and under the path: "/" and the
\* joined segments for a URL object whose path is a sequence, the URL itself
\* for a string, and "/" in every other case
C18_PostmanVerbAndPath ==
  (Normalized /\ nDoc \in UrlDocs /\ Truthy(UrlRequest)) =>
    /\ IsDict(nRes)
    /\ RecordsAsClaimed(DictAt(nRes, s_paths), UrlRequest)
\* ------------------------------------------------------------------------
\* Concurrent uploads: two clients whose requests are in flight together; each
\* handler suspends once, in "await file.read()", and the event loop runs the
\* rest of it (main.py lines 400-421) without switching to another handler
\* ------------------------------------------------------------------------
Clients == {"u1", "u2"}

ConcInit ==
  /\ API_SPEC = EmptyDict
  /\ gen = 0
  /\ srcDoc = NoDoc
  /\ lastOk = NoDoc
  /\ nOk = 0
  /\ nUploads = 0
  /\ up = [u \in Clients |-> IdleUpload]
  /\ rd = [r \in Readers |-> IdleRead]
  /\ NormIdle
  /\ DiagIdle
  /\ KwIdle

ConcNext ==
  \/ \E u \in Clients : UploadBegin(u)
  \/ \E u \in Clients : UploadHandle(u)
  \/ \E u \in Clients : UploadReturn(u)

ConcSpec == ConcInit /\ [][ConcNext]_vars

\* the number of paths of a normalized spec
PathCount(spec) == Num(Len(Or(DictGet(spec, s_paths, EmptyDict), EmptyDict)[2]))

Succeeded(u) == up[u].pc = "done" /\ up[u].resp.status = "ok"

\* C19: the metadata of a successful upload describes the spec normalized
\* from the request's own document, whatever other uploads stored meanwhile:
\* path_count is the number of paths of normalize_spec(d) for its own d
C19_MetadataOfOwnDocument ==
  \A u \in Clients :
    Succeeded(u) =>
      /\ DictAt(up[u].resp.body, s_path_count) = PathCount(normalize_spec(up[u].doc))
      /\ up[u].resp.body = upload_metadata(normalize_spec(up[u].doc))

\* two uploads in flight together, both answered success, with different
\* numbers of paths, the cache holding the spec of one of them only
C19_Witness ==
  /\ Succeeded("u1")
  /\ Succeeded("u2")
  /\ DictAt(up["u1"].resp.body, s_path_count) /= DictAt(up["u2"].resp.body, s_path_count)
  /\ API_SPEC = normalize_spec(up["u2"].doc)
  /\ API_SPEC /= normalize_spec(up["u1"].doc)

====
